---- MODULE Spec2Model ----
(***************************************************************************)
(* Rope-physics and interaction core of the cut game: GameManager (ropes,  *)
(* cuts, per-frame update), Physics (world, body registry), ScoreManager,  *)
(* SpawnManager, GameTimer and the render loop of main.ts.                 *)
(*                                                                         *)
(* Units.  Time is counted in whole seconds (Date.now() and                *)
(* performance.now() are milliseconds in the source; every duration the    *)
(* model uses is a whole number of seconds).  Positions and speeds are     *)
(* scaled by PosScale so that the linear difficulty ramp stays integral.   *)
(***************************************************************************)
EXTENDS Integers, Sequences, FiniteSets, TLC

VARIABLES
    now,                \* wall clock (s); performance.now() and Date.now() - Epoch
    pc,                 \* position of the render loop inside animate()
    phases,             \* phases executed so far by the current (or last) frame
    segmentCount,       \* defaultRopeConfig.segmentCount
    ropes,              \* GameManager.ropes, in Map insertion order
    ropeIdCounter,      \* GameManager.ropeIdCounter
    handPosition,       \* leftHandPosition / rightHandPosition (0 = null)
    previousGestures,   \* GestureTracker.previousGestures
    handReports,        \* what the hand-tracking frames last said of each hand
    physics,            \* Physics: RAPIER and world (set or null), counters
    worldBodies,        \* rigid bodies alive in the RAPIER world
    worldJoints,        \* impulse joints alive in the RAPIER world
    rigidBodies,        \* Physics.rigidBodies (the body/mesh registry)
    worldFault,         \* the world was left unusable by a read of a freed body
    staleJointRemovals, \* joints passed to removeImpulseJoint when already removed
    staleBodyReads,     \* freed bodies read by the last operation
    scoreData,          \* ScoreManager.scoreData
    events,             \* ScoreManager.events
    lastCutTime,        \* ScoreManager.lastCutTime
    timer,              \* GameTimer's fields
    animationFrames,    \* handles of the callbacks requestAnimationFrame holds
    tracker,            \* a tracker: which one, tracking, its frame handle
    spawner,            \* SpawnManager: isActive, timeSinceLastSpawn
    everCut,            \* ids of the ropes that have been marked isCut
    lastOp              \* what the last operation was and what it resolved

vars == <<now, pc, phases, segmentCount, ropes, ropeIdCounter, handPosition,
          previousGestures, handReports, physics,
          worldBodies, worldJoints, rigidBodies, worldFault,
          staleJointRemovals, staleBodyReads, scoreData, events, lastCutTime,
          timer, animationFrames, tracker, spawner, everCut, lastOp>>

----------------------------------------------------------------------------
(* Bounds of the exploration *)

MaxSegments == 3       \* segmentCount ranges over 1..MaxSegments
MaxRopeId == 3         \* ropes spawned per run
MaxTime == 18          \* the 6 s frames stop at this clock value
MaxLateTime == 36      \* the frames after a long pause stop here
LongPause == 24        \* first frame of a session whose tab was hidden
LateDelta == 3         \* frame delta time after the long pause
DeltaTimes == {6, LateDelta, LongPause}   \* frame delta times (s)
SpawnTreasures == {"gold"}   \* treasure types the random draw covers
MaxCombo == 40         \* combos range over 1..MaxCombo

(* Program constants *)

StartX == 8
BoundX == 10
DefaultSpeed == 1
InitialInterval10 == 30   \* initialInterval 3.0 s, in tenths
MinInterval10 == 15       \* minInterval 1.5 s, in tenths
MinSpeed10 == 10          \* minSpeed 1.0, in tenths
MaxSpeed10 == 20          \* maxSpeed 2.0, in tenths
TotalDuration == 30
PosScale == 10 * TotalDuration   \* positions are held in 1/300 world units
TimerDuration == 30
ComboTimeout == 3
Epoch == 1             \* Date.now() is positive: it counts from 1970

Hands == {"Left", "Right"}
TreasureTypes == {"gold", "silver", "bronze"}
Directions == {"left", "right"}
Unset == "unset"                  \* previousGestures has no entry for the hand
NeverReported == [position |-> 0, missing |-> TRUE]
PhysicsNew == [RAPIER |-> FALSE, world |-> FALSE, bodyIdCounter |-> 0,
               bodyHandles |-> 0]
PhysicsReady == [PhysicsNew EXCEPT !.RAPIER = TRUE, !.world = TRUE]
NoFrame == 0                       \* animationFrameId / animationId is null
GameTimerNew == [isActive |-> FALSE, isPaused |-> FALSE, startTime |-> 0,
                 pausedTime |-> 0, hasTimeUpFired |-> FALSE,
                 animationFrameId |-> NoFrame]
TrackerNew == [kind |-> "GestureTracker", tracking |-> FALSE,
               animationId |-> NoFrame]
NoRope == -1
NoHit == -1

Abs(n) == IF n < 0 THEN -n ELSE n
Min(a, b) == IF a < b THEN a ELSE b

----------------------------------------------------------------------------
(* Treasure.ts *)

getTreasureConfig(type) ==
    CASE type = "gold"   -> [type |-> "gold",   score |-> 100]
      [] type = "silver" -> [type |-> "silver", score |-> 50]
      [] type = "bronze" -> [type |-> "bronze", score |-> 30]

----------------------------------------------------------------------------
(* Rope.ts.  A body is <<rope id, part>>: part 0 is the anchor, parts 1..N *)
(* are the segments and part N+1 is the treasure.  A joint handle records  *)
(* the two bodies it was created between.                                  *)

Joint(bodyA, bodyB) == [a |-> bodyA, b |-> bodyB]

createRope(id, config) ==
    [segments   |-> [i \in 1..config |-> <<id, i>>],
     anchorBody |-> <<id, 0>>]

(* variant: the joint between the anchor and the first segment is left out *)
connectRopeSegments_NoAnchor(anchorBody, segments) ==
    [i \in 1..(Len(segments) - 1) |-> Joint(segments[i], segments[i + 1])]

connectRopeSegments(anchorBody, segments) ==
    (IF Len(segments) > 0 THEN <<Joint(anchorBody, segments[1])>> ELSE <<>>)
    \o [i \in 1..(Len(segments) - 1) |-> Joint(segments[i], segments[i + 1])]

attachTreasureToRope(lastSegment, treasureBody) ==
    Joint(lastSegment, treasureBody)


(* world.removeImpulseJoint(joint, true).  Removing a joint that is no     *)
(* longer in the world leaves the world as it is; the call is recorded.    *)
cutRopeJoint(g, joint) ==
    [g EXCEPT !.worldJoints = @ \ {joint},
              !.staleJointRemovals =
                  IF joint \in g.worldJoints THEN @ ELSE @ \cup {joint}]

----------------------------------------------------------------------------
(* GameManager.ts.  The operators below take and return the record g of    *)
(* the fields the rope operations touch.                                   *)

Range(seq) == {seq[i] : i \in 1..Len(seq)}

RopeIds(rs) == {rs[i].id : i \in 1..Len(rs)}

RopeIndex(rs, id) == CHOOSE i \in 1..Len(rs) : rs[i].id = id

RopeBodies(rope) ==
    Range(rope.segments) \cup {rope.treasure.body, rope.anchorBody}

spawnRopeWithTreasure(g, direction, treasureType, config) ==
    LET id == g.ropeIdCounter
        startX == IF direction = "left" THEN -StartX ELSE StartX
        built == createRope(id, config)
        segments == built.segments
        anchorBody == built.anchorBody
        joints0 == connectRopeSegments(anchorBody, segments)
        treasureBody == <<id, Len(segments) + 1>>
        treasureJoint ==
            attachTreasureToRope(segments[Len(segments)], treasureBody)
        joints == Append(joints0, treasureJoint)
        rope == [id         |-> id,
                 segments   |-> segments,
                 treasure   |-> [body   |-> treasureBody,
                                 config |-> getTreasureConfig(treasureType)],
                 joints     |-> joints,
                 direction  |-> direction,
                 speed      |-> DefaultSpeed * PosScale,
                 anchorBody |-> anchorBody,
                 isCut      |-> FALSE,
                 x          |-> startX * PosScale,
                 nextX      |-> startX * PosScale]
    IN  [g EXCEPT !.ropeIdCounter = id + 1,
                  !.ropes = Append(@, rope),
                  !.worldBodies = @ \cup RopeBodies(rope),
                  !.worldJoints = @ \cup Range(joints),
                  !.rigidBodies = @ \cup Range(segments) \cup {treasureBody}]

(* createRigidBody throws on an unusable world: only the id was consumed *)
spawnRopeThrows(g) == [g EXCEPT !.ropeIdCounter = @ + 1]

RECURSIVE RemoveJoints(_, _)
RemoveJoints(g, joints) ==
    IF joints = <<>> THEN g
    ELSE RemoveJoints(cutRopeJoint(g, Head(joints)), Tail(joints))

removeRope(g, id) ==
    IF id \notin RopeIds(g.ropes) THEN g
    ELSE LET rope == g.ropes[RopeIndex(g.ropes, id)]
             g1 == RemoveJoints(g, rope.joints)
         IN  [g1 EXCEPT !.worldBodies = @ \ RopeBodies(rope),
                        !.ropes = SelectSeq(@, LAMBDA r : r.id # id)]

(* variant: ropes that are already cut are not removed at the bound *)
RECURSIVE MoveRopes_SparesCut(_, _, _)
MoveRopes_SparesCut(g, ids, deltaTime) ==
    IF ids = <<>> THEN g
    ELSE IF Head(ids) \notin RopeIds(g.ropes)
         THEN MoveRopes_SparesCut(g, Tail(ids), deltaTime)
    ELSE LET i == RopeIndex(g.ropes, Head(ids))
             rope == g.ropes[i]
             moveDistance == rope.speed * deltaTime
             newX == IF rope.direction = "left"
                     THEN rope.x + moveDistance
                     ELSE rope.x - moveDistance
             g1 == [g EXCEPT !.ropes[i].nextX = newX,
                             !.moved = @ \cup {rope.id}]
             g2 == IF Abs(newX) > BoundX * PosScale /\ ~rope.isCut
                   THEN [removeRope(g1, rope.id) EXCEPT
                             !.removedInLoop = @ \cup {rope.id}]
                   ELSE g1
         IN  MoveRopes_SparesCut(g2, Tail(ids), deltaTime)

(* variant: a rope is removed as soon as its anchor reaches the bound *)
RECURSIVE MoveRopes_RemovesAtBound(_, _, _)
MoveRopes_RemovesAtBound(g, ids, deltaTime) ==
    IF ids = <<>> THEN g
    ELSE IF Head(ids) \notin RopeIds(g.ropes)
         THEN MoveRopes_RemovesAtBound(g, Tail(ids), deltaTime)
    ELSE LET i == RopeIndex(g.ropes, Head(ids))
             rope == g.ropes[i]
             moveDistance == rope.speed * deltaTime
             newX == IF rope.direction = "left"
                     THEN rope.x + moveDistance
                     ELSE rope.x - moveDistance
             g1 == [g EXCEPT !.ropes[i].nextX = newX,
                             !.staleBodyReads =
                                 IF rope.anchorBody \in g.worldBodies
                                 THEN @ ELSE @ \cup {rope.anchorBody},
                             !.moved = @ \cup {rope.id}]
             g2 == IF Abs(newX) >= BoundX * PosScale
                   THEN [removeRope(g1, rope.id) EXCEPT
                             !.removedInLoop = @ \cup {rope.id}]
                   ELSE g1
         IN  MoveRopes_RemovesAtBound(g2, Tail(ids), deltaTime)

(* variant: the anchor of a cut rope is no longer moved *)
RECURSIVE MoveRopes_CutStays(_, _, _)
MoveRopes_CutStays(g, ids, deltaTime) ==
    IF ids = <<>> THEN g
    ELSE IF Head(ids) \notin RopeIds(g.ropes)
         THEN MoveRopes_CutStays(g, Tail(ids), deltaTime)
    ELSE LET i == RopeIndex(g.ropes, Head(ids))
             rope == g.ropes[i]
             moveDistance == IF rope.isCut THEN 0 ELSE rope.speed * deltaTime
             newX == IF rope.direction = "left"
                     THEN rope.x + moveDistance
                     ELSE rope.x - moveDistance
             g1 == [g EXCEPT !.ropes[i].nextX = newX,
                             !.staleBodyReads =
                                 IF rope.anchorBody \in g.worldBodies
                                 THEN @ ELSE @ \cup {rope.anchorBody},
                             !.moved = @ \cup {rope.id}]
             g2 == IF Abs(newX) > BoundX * PosScale
                   THEN [removeRope(g1, rope.id) EXCEPT
                             !.removedInLoop = @ \cup {rope.id}]
                   ELSE g1
         IN  MoveRopes_CutStays(g2, Tail(ids), deltaTime)

(* One pass of this.ropes.forEach in update(): ids is what is left of the  *)
(* Map's insertion order; an entry deleted before its turn is not visited. *)
RECURSIVE MoveRopes(_, _, _)
MoveRopes(g, ids, deltaTime) ==
    IF ids = <<>> THEN g
    ELSE IF Head(ids) \notin RopeIds(g.ropes)
         THEN MoveRopes(g, Tail(ids), deltaTime)
    ELSE LET i == RopeIndex(g.ropes, Head(ids))
             rope == g.ropes[i]
             moveDistance == rope.speed * deltaTime
             newX == IF rope.direction = "left"
                     THEN rope.x + moveDistance
                     ELSE rope.x - moveDistance
             g1 == [g EXCEPT !.ropes[i].nextX = newX,
                             !.staleBodyReads =
                                 IF rope.anchorBody \in g.worldBodies
                                 THEN @ ELSE @ \cup {rope.anchorBody},
                             !.moved = @ \cup {rope.id}]
             g2 == IF Abs(newX) > BoundX * PosScale
                   THEN [removeRope(g1, rope.id) EXCEPT
                             !.removedInLoop = @ \cup {rope.id}]
                   ELSE g1
         IN  MoveRopes(g2, Tail(ids), deltaTime)

IdsInOrder(rs) == [i \in 1..Len(rs) |-> rs[i].id]

----------------------------------------------------------------------------
(* ScoreManager.ts, on the record s of its fields *)

(* IEEE 754 double arithmetic, as far as addScore uses it.  A double is    *)
(* mant * 2^(-scale); mant is a sequence of bits, lowest bit first, with   *)
(* at most 53 bits up to its highest 1.                                    *)

RECURSIVE MulSmall(_, _, _)
MulSmall(bits, n, carry) ==
    IF bits = <<>>
    THEN IF carry = 0 THEN <<>>
         ELSE <<carry % 2>> \o MulSmall(<<>>, n, carry \div 2)
    ELSE LET v == Head(bits) * n + carry
         IN  <<v % 2>> \o MulSmall(Tail(bits), n, v \div 2)

RECURSIVE AddBits(_, _, _)
AddBits(a, b, carry) ==
    IF a = <<>> /\ b = <<>>
    THEN IF carry = 0 THEN <<>> ELSE <<carry>>
    ELSE LET x == IF a = <<>> THEN 0 ELSE Head(a)
             y == IF b = <<>> THEN 0 ELSE Head(b)
             v == x + y + carry
         IN  <<v % 2>> \o AddBits(IF a = <<>> THEN a ELSE Tail(a),
                                  IF b = <<>> THEN b ELSE Tail(b),
                                  v \div 2)

BitLen(bits) ==
    IF \A i \in 1..Len(bits) : bits[i] = 0 THEN 0
    ELSE CHOOSE i \in 1..Len(bits) :
             bits[i] = 1 /\ \A j \in (i + 1)..Len(bits) : bits[j] = 0

RECURSIVE BitsToInt(_)
BitsToInt(bits) ==
    IF bits = <<>> THEN 0 ELSE Head(bits) + 2 * BitsToInt(Tail(bits))

MantissaBits == 53

(* round to nearest, ties to even *)
RoundToDouble(x) ==
    LET n == BitLen(x.mant)
        drop == n - MantissaBits
    IN  IF drop <= 0 THEN [mant |-> SubSeq(x.mant, 1, n), scale |-> x.scale]
        ELSE LET kept == SubSeq(x.mant, drop + 1, n)
                 guard == x.mant[drop]
                 sticky == \E i \in 1..(drop - 1) : x.mant[i] = 1
                 up == guard = 1 /\ (sticky \/ kept[1] = 1)
             IN  [mant  |-> IF up THEN AddBits(kept, <<1>>, 0) ELSE kept,
                  scale |-> x.scale - drop]

(* the literal 0.1: 0x1999999999999A * 2^(-56) *)
OneTenth ==
    [mant  |-> <<0, 1, 0, 1>>
               \o [i \in 1..48 |-> IF i % 4 \in {1, 0} THEN 1 ELSE 0]
               \o <<1>>,
     scale |-> 56]

(* n * x for a small whole number n *)
IntTimesDouble(n, x) ==
    RoundToDouble([mant |-> MulSmall(x.mant, n, 0), scale |-> x.scale])

(* 1 + x *)
OnePlusDouble(x) ==
    RoundToDouble([mant  |-> AddBits(x.mant,
                                     [i \in 1..(x.scale + 1) |->
                                         IF i = x.scale + 1 THEN 1 ELSE 0], 0),
                   scale |-> x.scale])

(* Math.floor of a double that is not negative *)
FloorDouble(x) == BitsToInt(SubSeq(x.mant, x.scale + 1, Len(x.mant)))

(* 1 + (combo - 1) * 0.1 *)
comboMultiplier(combo) == OnePlusDouble(IntTimesDouble(combo - 1, OneTenth))

(* Math.floor(baseScore * comboMultiplier) *)
pointsFor(baseScore, combo) ==
    FloorDouble(IntTimesDouble(baseScore, comboMultiplier(combo)))

BaseScores == {getTreasureConfig(t).score : t \in TreasureTypes}

(* the awards for every base score and every combo up to MaxCombo, worked  *)
(* out once                                                                *)
pointsByCombo ==
    [b \in BaseScores, c \in 1..MaxCombo |-> pointsFor(b, c)]

(* variant: addScore leaves maxCombo as it was *)
addScore_StaleMaxCombo(s, treasure, currentTime) ==
    LET combo == IF currentTime - s.lastCutTime <= ComboTimeout
                    /\ s.lastCutTime > 0
                 THEN s.scoreData.combo + 1
                 ELSE 1
        maxCombo == s.scoreData.maxCombo
        \* Math.floor(baseScore * (1 + (combo - 1) * 0.1))
        points == pointsByCombo[treasure.score, combo]
        event == [points |-> points, treasureType |-> treasure.type,
                  combo |-> combo, timestamp |-> currentTime]
    IN  [scoreData   |-> [current        |-> s.scoreData.current + points,
                          combo          |-> combo,
                          maxCombo       |-> maxCombo,
                          totalTreasures |-> s.scoreData.totalTreasures + 1],
         events      |-> Append(s.events, event),
         lastCutTime |-> currentTime]

addScore(s, treasure, currentTime) ==
    LET combo == IF currentTime - s.lastCutTime <= ComboTimeout
                    /\ s.lastCutTime > 0
                 THEN s.scoreData.combo + 1
                 ELSE 1
        maxCombo == IF combo > s.scoreData.maxCombo
                    THEN combo ELSE s.scoreData.maxCombo
        \* Math.floor(baseScore * (1 + (combo - 1) * 0.1))
        points == pointsByCombo[treasure.score, combo]
        event == [points |-> points, treasureType |-> treasure.type,
                  combo |-> combo, timestamp |-> currentTime]
    IN  [scoreData   |-> [current        |-> s.scoreData.current + points,
                          combo          |-> combo,
                          maxCombo       |-> maxCombo,
                          totalTreasures |-> s.scoreData.totalTreasures + 1],
         events      |-> Append(s.events, event),
         lastCutTime |-> currentTime]

(* variant: resetting the combo also clears the score total *)
resetCombo_ClearsTotal(s) ==
    [s EXCEPT !.scoreData.combo = 0, !.scoreData.current = 0]

resetCombo(s) == [s EXCEPT !.scoreData.combo = 0]

(* variant: update() never resets the combo *)
scoreUpdate_NeverResets(s, currentTime) == s

(* variant: the combo is reset as soon as the timeout is reached *)
scoreUpdate_ResetsAtTimeout(s, currentTime) ==
    IF s.scoreData.combo > 0 /\ currentTime - s.lastCutTime >= ComboTimeout
    THEN resetCombo(s)
    ELSE s

scoreUpdate(s, currentTime) ==
    IF s.scoreData.combo > 0 /\ currentTime - s.lastCutTime > ComboTimeout
    THEN resetCombo(s)
    ELSE s

----------------------------------------------------------------------------
(* SpawnManager.ts.  Intervals are in 1/(10*TotalDuration) s, speeds in    *)
(* 1/(10*TotalDuration) units per second, which is 1/PosScale.             *)

\* Math.min(1, elapsedTime / totalDuration), times TotalDuration
getDifficultyMultiplier(elapsedTime) == Min(TotalDuration, elapsedTime)

getSpawnInterval(elapsedTime) ==
    InitialInterval10 * TotalDuration
    - (InitialInterval10 - MinInterval10) * getDifficultyMultiplier(elapsedTime)

getSpeed(elapsedTime) ==
    MinSpeed10 * TotalDuration
    + (MaxSpeed10 - MinSpeed10) * getDifficultyMultiplier(elapsedTime)

(* The same three functions for any totalDuration, in exact arithmetic.    *)
(* A number is the fraction num/den with den > 0, or NaN.  Intervals are   *)
(* in tenths of a second and speeds in tenths of a unit per second.        *)

Rat(n, d) == [nan |-> FALSE, num |-> n, den |-> d]

NaN == [nan |-> TRUE, num |-> 0, den |-> 1]

(* variant: the quotient is not capped at 1 *)
difficultyMultiplier_Unclamped(elapsedTime, totalDuration) ==
    IF totalDuration = 0 THEN NaN
    ELSE IF totalDuration > 0 THEN Rat(elapsedTime, totalDuration)
    ELSE Rat(-elapsedTime, -totalDuration)

(* Math.min(1, elapsedTime / totalDuration) for elapsedTime >= 0: 0 / 0 is *)
(* NaN and Math.min(1, NaN) is NaN; x / 0 is Infinity for x > 0; a         *)
(* negative totalDuration gives a quotient that is not above 0.            *)
difficultyMultiplier(elapsedTime, totalDuration) ==
    IF totalDuration = 0
    THEN IF elapsedTime = 0 THEN NaN ELSE Rat(1, 1)
    ELSE IF totalDuration > 0
    THEN IF elapsedTime >= totalDuration THEN Rat(1, 1)
         ELSE Rat(elapsedTime, totalDuration)
    ELSE Rat(-elapsedTime, -totalDuration)

(* variant: the ramp is quadratic in the difficulty *)
spawnIntervalAt_Quadratic(elapsedTime, totalDuration) ==
    LET d == difficultyMultiplier(elapsedTime, totalDuration)
    IN  IF d.nan THEN NaN
        ELSE Rat(InitialInterval10 * d.den * d.den
                 - (InitialInterval10 - MinInterval10) * d.num * d.num,
                 d.den * d.den)

spawnIntervalAt(elapsedTime, totalDuration) ==
    LET d == difficultyMultiplier(elapsedTime, totalDuration)
    IN  IF d.nan THEN NaN
        ELSE Rat(InitialInterval10 * d.den
                 - (InitialInterval10 - MinInterval10) * d.num, d.den)

speedAt(elapsedTime, totalDuration) ==
    LET d == difficultyMultiplier(elapsedTime, totalDuration)
    IN  IF d.nan THEN NaN
        ELSE Rat(MinSpeed10 * d.den + (MaxSpeed10 - MinSpeed10) * d.num, d.den)

----------------------------------------------------------------------------
(* GameTimer.ts *)

getElapsedTime(t, clock) ==
    IF ~t.isActive THEN 0
    ELSE IF t.isPaused THEN t.pausedTime
    ELSE clock - t.startTime

getRemainingTime(t, clock) ==
    LET remaining == TimerDuration - getElapsedTime(t, clock)
    IN  IF remaining > 0 THEN remaining ELSE 0


(* GameTimer.updateLoop: on the first tick with no time left it fires      *)
(* onTimeUp (GameManager.endGame) and stops.                               *)
TimeIsUp(t, clock) ==
    /\ t.isActive
    /\ ~t.isPaused
    /\ getRemainingTime(t, clock) <= 0
    /\ ~t.hasTimeUpFired

timerStop(t) == [t EXCEPT !.isActive = FALSE, !.isPaused = FALSE,
                          !.animationFrameId = NoFrame]

updateLoop(t, clock) ==
    IF TimeIsUp(t, clock)
    THEN timerStop([t EXCEPT !.hasTimeUpFired = TRUE])
    ELSE t

spawnerStart(sp) == [sp EXCEPT !.isActive = TRUE, !.timeSinceLastSpawn = 0]

(* variant: stop() leaves the spawner running *)
spawnerStop_KeepsRunning(sp) == sp

spawnerStop(sp) == [sp EXCEPT !.isActive = FALSE]

(* variant: the accumulator keeps counting while the spawner is stopped *)
spawnManagerUpdate_CountsWhileStopped(sp, deltaTime, elapsedTime) ==
    LET acc == sp.timeSinceLastSpawn + deltaTime
        due == sp.isActive
               /\ acc * 10 * TotalDuration >= getSpawnInterval(elapsedTime)
    IN  [spawner |-> [sp EXCEPT !.timeSinceLastSpawn = IF due THEN 0 ELSE acc],
         emit    |-> due,
         speed   |-> getSpeed(elapsedTime)]

(* variant: a spawn is due only when the accumulator is beyond the interval *)
spawnManagerUpdate_StrictlyGreater(sp, deltaTime, elapsedTime) ==
    IF ~sp.isActive
    THEN [spawner |-> sp, emit |-> FALSE, speed |-> 0]
    ELSE LET acc == sp.timeSinceLastSpawn + deltaTime
             due == acc * 10 * TotalDuration > getSpawnInterval(elapsedTime)
         IN  [spawner |-> [sp EXCEPT !.timeSinceLastSpawn =
                                         IF due THEN 0 ELSE acc],
              emit    |-> due,
              speed   |-> getSpeed(elapsedTime)]

(* variant: the event carries the speed for the end of the frame *)
spawnManagerUpdate_SpeedAfterFrame(sp, deltaTime, elapsedTime) ==
    IF ~sp.isActive
    THEN [spawner |-> sp, emit |-> FALSE, speed |-> 0]
    ELSE LET acc == sp.timeSinceLastSpawn + deltaTime
             due == acc * 10 * TotalDuration >= getSpawnInterval(elapsedTime)
         IN  [spawner |-> [sp EXCEPT !.timeSinceLastSpawn =
                                         IF due THEN 0 ELSE acc],
              emit    |-> due,
              speed   |-> getSpeed(elapsedTime + deltaTime)]

(* SpawnManager.update up to the onSpawn call: the new accumulator and     *)
(* whether a spawn event is emitted, with its speed.                       *)
spawnManagerUpdate(sp, deltaTime, elapsedTime) ==
    IF ~sp.isActive
    THEN [spawner |-> sp, emit |-> FALSE, speed |-> 0]
    ELSE LET acc == sp.timeSinceLastSpawn + deltaTime
             due == acc * 10 * TotalDuration >= getSpawnInterval(elapsedTime)
         IN  [spawner |-> [sp EXCEPT !.timeSinceLastSpawn =
                                         IF due THEN 0 ELSE acc],
              emit    |-> due,
              speed   |-> getSpeed(elapsedTime)]

----------------------------------------------------------------------------
(* Hit resolution.  hits maps every rope of the active set to the index of *)
(* the segment the query intersects, or NoHit: the answer of               *)
(* checkRopeHitRaycast, which depends on where the solver put the meshes.  *)

HitSets(rs) == [RopeIds(rs) -> NoHit..(segmentCount - 1)]

NoResult == [success |-> FALSE, ropeId |-> NoRope, segmentIndex |-> NoHit]

(* GameManager.cutRopeAtPoint: the loop stops at the first uncut rope the  *)
(* query hits.  throws: cutRopeJoint raises on an unusable world.          *)
(* variant: the loop does not skip ropes that are already cut *)
RECURSIVE CutLoop_NoSkip(_, _, _, _)
CutLoop_NoSkip(g, i, hits, throws) ==
    IF i > Len(g.ropes) THEN [g |-> g, result |-> NoResult, threw |-> FALSE]
    ELSE LET rope == g.ropes[i]
             segmentIndex == hits[rope.id]
             jointIndex == segmentIndex
         IN  IF segmentIndex # NoHit
                /\ jointIndex >= 0 /\ jointIndex < Len(rope.joints)
             THEN IF throws
                  THEN [g |-> g, result |-> NoResult, threw |-> TRUE]
                  ELSE [g |-> [cutRopeJoint(g, rope.joints[jointIndex + 1])
                                  EXCEPT !.ropes[i].isCut = TRUE],
                        result |-> [success |-> TRUE, ropeId |-> rope.id,
                                    segmentIndex |-> segmentIndex,
                                    treasure |-> rope.treasure.config],
                        threw |-> FALSE]
             ELSE CutLoop_NoSkip(g, i + 1, hits, throws)

(* variant: the joint below the hit segment is cut instead of the one above *)
RECURSIVE CutLoop_JointBelow(_, _, _, _)
CutLoop_JointBelow(g, i, hits, throws) ==
    IF i > Len(g.ropes) THEN [g |-> g, result |-> NoResult, threw |-> FALSE]
    ELSE LET rope == g.ropes[i]
             segmentIndex == hits[rope.id]
             jointIndex == segmentIndex + 1
         IN  IF rope.isCut THEN CutLoop_JointBelow(g, i + 1, hits, throws)
             ELSE IF segmentIndex # NoHit
                     /\ jointIndex >= 0 /\ jointIndex < Len(rope.joints)
             THEN IF throws
                  THEN [g |-> g, result |-> NoResult, threw |-> TRUE]
                  ELSE [g |-> [cutRopeJoint(g, rope.joints[jointIndex + 1])
                                  EXCEPT !.ropes[i].isCut = TRUE],
                        result |-> [success |-> TRUE, ropeId |-> rope.id,
                                    segmentIndex |-> segmentIndex,
                                    treasure |-> rope.treasure.config],
                        threw |-> FALSE]
             ELSE CutLoop_JointBelow(g, i + 1, hits, throws)

RECURSIVE CutLoop(_, _, _, _)
CutLoop(g, i, hits, throws) ==
    IF i > Len(g.ropes) THEN [g |-> g, result |-> NoResult, threw |-> FALSE]
    ELSE LET rope == g.ropes[i]
             segmentIndex == hits[rope.id]
             jointIndex == segmentIndex
         IN  IF rope.isCut THEN CutLoop(g, i + 1, hits, throws)
             ELSE IF segmentIndex # NoHit
                     /\ jointIndex >= 0 /\ jointIndex < Len(rope.joints)
             THEN IF throws
                  THEN [g |-> g, result |-> NoResult, threw |-> TRUE]
                  ELSE [g |-> [cutRopeJoint(g, rope.joints[jointIndex + 1])
                                  EXCEPT !.ropes[i].isCut = TRUE],
                        result |-> [success |-> TRUE, ropeId |-> rope.id,
                                    segmentIndex |-> segmentIndex,
                                    treasure |-> rope.treasure.config],
                        threw |-> FALSE]
             ELSE CutLoop(g, i + 1, hits, throws)

cutRopeAtPoint(g, hits, throws) == CutLoop(g, 1, hits, throws)

(* GameManager.handleClick has its own copy of the loop and scores inside  *)
RECURSIVE ClickLoop(_, _, _, _, _, _)
ClickLoop(g, s, i, hits, throws, currentTime) ==
    IF i > Len(g.ropes)
    THEN [g |-> g, s |-> s, result |-> NoResult, threw |-> FALSE]
    ELSE LET rope == g.ropes[i]
             segmentIndex == hits[rope.id]
             jointIndex == segmentIndex
         IN  IF rope.isCut THEN ClickLoop(g, s, i + 1, hits, throws, currentTime)
             ELSE IF segmentIndex # NoHit
                     /\ jointIndex >= 0 /\ jointIndex < Len(rope.joints)
             THEN IF throws
                  THEN [g |-> g, s |-> s, result |-> NoResult, threw |-> TRUE]
                  ELSE [g |-> [cutRopeJoint(g, rope.joints[jointIndex + 1])
                                  EXCEPT !.ropes[i].isCut = TRUE],
                        s |-> addScore(s, rope.treasure.config, currentTime),
                        result |-> [success |-> TRUE, ropeId |-> rope.id,
                                    segmentIndex |-> segmentIndex,
                                    treasure |-> rope.treasure.config],
                        threw |-> FALSE]
             ELSE ClickLoop(g, s, i + 1, hits, throws, currentTime)

Reverse(seq) == [i \in 1..Len(seq) |-> seq[Len(seq) + 1 - i]]

(* variant: the ropes are tried from the most recently spawned one *)
handleClick_LastMatch(g, s, hits, throws, currentTime) ==
    LET r == ClickLoop([g EXCEPT !.ropes = Reverse(@)], s, 1, hits, throws,
                       currentTime)
    IN  [r EXCEPT !.g.ropes = Reverse(@)]

(* variant: a click that hits nothing breaks the combo *)
handleClick_MissResetsCombo(g, s, hits, throws, currentTime) ==
    LET r == ClickLoop(g, s, 1, hits, throws, currentTime)
    IN  IF r.result.success \/ r.threw THEN r
        ELSE [r EXCEPT !.s = resetCombo(s)]

handleClick(g, s, hits, throws, currentTime) ==
    ClickLoop(g, s, 1, hits, throws, currentTime)

(* variant: a gesture cut is not scored *)
handleVCloseAction_NoScore(g, s, hits, throws, currentTime) ==
    LET r == cutRopeAtPoint(g, hits, throws)
    IN  [g |-> r.g, s |-> s, result |-> r.result, threw |-> r.threw]

(* GameManager.handleVCloseAction for a hand with a cached position *)
handleVCloseAction(g, s, hits, throws, currentTime) ==
    LET r == cutRopeAtPoint(g, hits, throws)
    IN  [g |-> r.g,
         s |-> IF r.result.success
               THEN addScore(s, r.result.treasure, currentTime)
               ELSE s,
         result |-> r.result,
         threw |-> r.threw]


----------------------------------------------------------------------------
(* The state as the records the operators work on *)

G == [ropes |-> ropes, ropeIdCounter |-> ropeIdCounter,
      worldBodies |-> worldBodies, worldJoints |-> worldJoints,
      rigidBodies |-> rigidBodies,
      staleJointRemovals |-> staleJointRemovals,
      staleBodyReads |-> {}, moved |-> {}, removedInLoop |-> {}]

SetG(g) ==
    /\ ropes' = g.ropes
    /\ ropeIdCounter' = g.ropeIdCounter
    /\ worldBodies' = g.worldBodies
    /\ worldJoints' = g.worldJoints
    /\ rigidBodies' = g.rigidBodies
    /\ staleJointRemovals' = g.staleJointRemovals
    /\ staleBodyReads' = g.staleBodyReads
    /\ everCut' = everCut \cup
                  {g.ropes[i].id : i \in {k \in 1..Len(g.ropes) : g.ropes[k].isCut}}

S == [scoreData |-> scoreData, events |-> events, lastCutTime |-> lastCutTime]

SetS(s) ==
    /\ scoreData' = s.scoreData
    /\ events' = s.events
    /\ lastCutTime' = s.lastCutTime

DateNow == Epoch + now

(* onSpawn was not called *)
NoEvent == [direction |-> "none", speed |-> 0]

Op(name) == [op |-> name, cutId |-> NoRope, seg |-> NoHit,
             firstHit |-> NoRope, nHit |-> 0, hitCut |-> FALSE, moved |-> {},
             removedInLoop |-> {}, threw |-> FALSE, deltaTime |-> 0,
             spawnEvent |-> NoEvent]

(* The uncut ropes of the active set that the query intersects, and the    *)
(* one of them that was inserted first.                                    *)
UncutHit(rs, hits) ==
    {i \in 1..Len(rs) : ~rs[i].isCut /\ hits[rs[i].id] # NoHit}

FirstUncutHit(rs, hits) ==
    IF UncutHit(rs, hits) = {} THEN NoRope
    ELSE rs[CHOOSE i \in UncutHit(rs, hits) :
                \A j \in UncutHit(rs, hits) : i <= j].id

----------------------------------------------------------------------------
(* Initial state: startGame() has run GameManager.init() and start() *)

Init ==
    /\ now = 0
    /\ pc = "idle"
    /\ phases = <<>>
    /\ segmentCount \in 1..MaxSegments
    /\ ropes = <<>>
    /\ ropeIdCounter = 0
    /\ handPosition = [h \in Hands |-> 0]
    /\ previousGestures = [h \in Hands |-> Unset]
    /\ handReports = [h \in Hands |-> NeverReported]
    /\ physics = PhysicsReady
    /\ worldBodies = {}
    /\ worldJoints = {}
    /\ rigidBodies = {}
    /\ worldFault = FALSE
    /\ staleJointRemovals = {}
    /\ staleBodyReads = {}
    /\ scoreData = [current |-> 0, combo |-> 0, maxCombo |-> 0,
                    totalTreasures |-> 0]
    /\ events = <<>>
    /\ lastCutTime = 0
    /\ timer = [GameTimerNew EXCEPT !.isActive = TRUE]
    /\ animationFrames = <<>>
    /\ tracker = TrackerNew
    /\ spawner = [isActive |-> TRUE, timeSinceLastSpawn |-> 0]
    /\ everCut = {}
    /\ lastOp = Op("init")

----------------------------------------------------------------------------
(* The browser frame: GameTimer.updateLoop, then animate() of              *)
(* startRenderLoop: update(deltaTime), physics.step(), syncMeshes().       *)

(* The frame schedules explored: 6 s frames from the start, or one frame   *)
(* after LongPause seconds without any (requestAnimationFrame is suspended *)
(* while the tab is hidden) followed by LateDelta frames.                  *)
FrameAllowed(clock, deltaTime) ==
    \/ deltaTime = 6 /\ clock + deltaTime <= MaxTime
    \/ deltaTime = LongPause /\ clock = 0
    \/ deltaTime = LateDelta /\ clock >= LongPause
                             /\ clock + deltaTime <= MaxLateTime

BrowserFrame(deltaTime) ==
    /\ pc = "idle"
    /\ FrameAllowed(now, deltaTime)
    /\ now' = now + deltaTime
    /\ timer' = updateLoop(timer, now + deltaTime)
    /\ spawner' = IF TimeIsUp(timer, now + deltaTime)
                  THEN spawnerStop(spawner) ELSE spawner
    /\ UNCHANGED <<animationFrames, tracker>>
    /\ pc' = "animate"
    /\ phases' = <<>>
    /\ staleBodyReads' = {}
    /\ lastOp' = [Op("frame") EXCEPT !.deltaTime = deltaTime]
    /\ UNCHANGED <<segmentCount, ropes, ropeIdCounter, handPosition,
                   previousGestures, handReports, physics,
                   worldBodies, worldJoints, rigidBodies,
                   worldFault, staleJointRemovals, scoreData, events,
                   lastCutTime, everCut>>

(* variant: the combo decay check is made before spawning and moving *)
UpdatePhases_DecayFirst == <<"decay", "spawn", "move">>

(* The order of the calls inside GameManager.update(): spawnManager.update, *)
(* the ropes.forEach that moves and removes, scoreManager.update.          *)
UpdatePhases == <<"spawn", "move", "decay">>

(* GameManager.update(deltaTime).  throws names the call that raises on an *)
(* unusable world: "spawn" (createRigidBody), "move"                       *)
(* (setNextKinematicTranslation on the first rope) or "none".              *)
Update(direction, treasureType, throws) ==
    /\ pc = "animate"
    /\ LET deltaTime == lastOp.deltaTime
           elapsedTime == getElapsedTime(timer, now)
           sm == spawnManagerUpdate(spawner, deltaTime, elapsedTime)
           spawned == spawnRopeWithTreasure(G, direction, treasureType,
                                            segmentCount)
           g1 == IF ~sm.emit THEN G
                 ELSE [spawned EXCEPT !.ropes[Len(spawned.ropes)].speed = sm.speed]
           g2 == MoveRopes(g1, IdsInOrder(g1.ropes), deltaTime)
           \* the arguments of the onSpawn call that returned
           event == IF ~sm.emit THEN NoEvent
                    ELSE [direction |-> direction, speed |-> sm.speed]
       IN  /\ sm.emit => ropeIdCounter < MaxRopeId
           /\ throws # "none" => worldFault
           /\ throws = "spawn" => sm.emit
           /\ throws = "move" => g1.ropes # <<>>
           /\ spawner' = sm.spawner
           /\ CASE throws = "spawn" ->
                     /\ SetG(spawnRopeThrows(G))
                     /\ SetS(S)
                     /\ phases' = SubSeq(UpdatePhases, 1, 1)
                     /\ pc' = "idle"
                     /\ lastOp' = [Op("update") EXCEPT !.threw = TRUE]
                [] throws = "move" ->
                     /\ SetG(g1)
                     /\ SetS(S)
                     /\ phases' = SubSeq(UpdatePhases, 1, 2)
                     /\ pc' = "idle"
                     /\ lastOp' = [Op("update") EXCEPT !.threw = TRUE,
                                                       !.spawnEvent = event]
                [] OTHER ->
                     /\ SetG(g2)
                     /\ SetS(scoreUpdate(S, DateNow))
                     /\ phases' = UpdatePhases
                     /\ pc' = "updated"
                     /\ lastOp' = [Op("update") EXCEPT
                                      !.moved = g2.moved,
                                      !.removedInLoop = g2.removedInLoop,
                                      !.spawnEvent = event]
    /\ UNCHANGED <<now, segmentCount, handPosition,
                   previousGestures, handReports, physics, worldFault,
                   timer,
                   animationFrames, tracker>>

(* Physics.step(): the solver moves every kinematic anchor to the          *)
(* translation set for it.                                                 *)
PhysicsStep(throws) ==
    /\ pc = "updated"
    /\ throws => worldFault
    /\ IF throws
       THEN /\ pc' = "idle"
            /\ UNCHANGED <<ropes, phases>>
       ELSE /\ pc' = "stepped"
            /\ ropes' = [i \in 1..Len(ropes) |->
                            [ropes[i] EXCEPT !.x = ropes[i].nextX]]
            /\ phases' = Append(phases, "step")
    /\ staleBodyReads' = {}
    /\ lastOp' = [Op("step") EXCEPT !.threw = throws]
    /\ UNCHANGED <<now, segmentCount, ropeIdCounter, handPosition,
                   previousGestures, handReports, physics,
                   worldBodies, worldJoints, rigidBodies,
                   worldFault, staleJointRemovals, scoreData, events,
                   lastCutTime, timer,
                   animationFrames, tracker, spawner, everCut>>

(* Physics.syncMeshes(): reads translation() and rotation() of every       *)
(* registered body.  Reading a body that was removed from the world either *)
(* returns or raises and leaves the world unusable.                        *)
SyncMeshes(throws) ==
    /\ pc = "stepped"
    /\ LET stale == rigidBodies \ worldBodies
       IN  /\ throws => stale # {}
           /\ staleBodyReads' = stale
           /\ worldFault' = (worldFault \/ throws)
    /\ pc' = "idle"
    /\ phases' = Append(phases, "sync")
    /\ lastOp' = [Op("sync") EXCEPT !.threw = throws]
    /\ UNCHANGED <<now, segmentCount, ropes, ropeIdCounter, handPosition,
                   previousGestures, handReports, physics,
                   worldBodies, worldJoints, rigidBodies,
                   staleJointRemovals, scoreData, events, lastCutTime, timer,
                   animationFrames, tracker,
                   spawner, everCut>>

----------------------------------------------------------------------------
(* Input events, dispatched between frames *)

Resolved(name, r, hits) ==
    [Op(name) EXCEPT !.cutId = r.result.ropeId,
                     !.seg = r.result.segmentIndex,
                     !.firstHit = FirstUncutHit(ropes, hits),
                     !.nHit = Cardinality(UncutHit(ropes, hits)),
                     !.hitCut = (\E i \in 1..Len(ropes) :
                                    ropes[i].isCut /\ hits[ropes[i].id] # NoHit),
                     !.threw = r.threw]

(* main.ts handleClick -> GameManager.handleClick *)
HandleClick(hits, throws) ==
    /\ pc = "idle"
    /\ throws => worldFault
    /\ LET r == handleClick(G, S, hits, throws, DateNow)
       IN  /\ throws => r.threw
           /\ SetG(r.g)
           /\ SetS(r.s)
           /\ lastOp' = Resolved("click", r, hits)
    /\ UNCHANGED <<now, pc, phases, segmentCount, handPosition,
                   previousGestures, handReports, physics,
                   worldFault, timer,
                   animationFrames, tracker, spawner>>

(* main.ts onHandResults: updateHandPosition for each detected hand,       *)
(* hideHand for the others.                                                *)
OnHandResults(detected) ==
    /\ pc = "idle"
    /\ handPosition' = [h \in Hands |-> IF h \in detected THEN 1 ELSE 0]
    /\ handPosition' # handPosition
    /\ lastOp' = Op("hands")
    /\ staleBodyReads' = {}
    /\ UNCHANGED <<now, pc, phases, segmentCount, ropes, ropeIdCounter,
                   previousGestures, handReports, physics,
                   worldBodies, worldJoints, rigidBodies,
                   worldFault, staleJointRemovals, scoreData, events,
                   lastCutTime, timer,
                   animationFrames, tracker, spawner, everCut>>

(* main.ts onVCloseAction -> GameManager.handleVCloseAction(handedness) *)
HandleVCloseAction(handedness) ==
    /\ pc = "idle"
    /\ IF handPosition[handedness] = 0
       THEN /\ SetG(G)
            /\ SetS(S)
            /\ lastOp' = Op("gesture")
       ELSE \E hits \in HitSets(ropes), throws \in BOOLEAN :
                LET r == handleVCloseAction(G, S, hits, throws, DateNow)
                IN  /\ throws => (worldFault /\ r.threw)
                    /\ SetG(r.g)
                    /\ SetS(r.s)
                    /\ lastOp' = Resolved("gesture", r, hits)
    /\ UNCHANGED <<now, pc, phases, segmentCount, handPosition,
                   previousGestures, handReports, physics,
                   worldFault, timer,
                   animationFrames, tracker, spawner>>

(* main.ts stopGame(), run by handleStateChange("title"): cancels the      *)
(* render loop, removes the click listener, stops tracking and drops the   *)
(* references to the scene, the physics and the game manager.              *)
StopGame ==
    /\ pc = "idle"
    /\ pc' = "stopped"
    /\ lastOp' = Op("stop")
    /\ staleBodyReads' = {}
    /\ UNCHANGED <<now, phases, segmentCount, ropes, ropeIdCounter,
                   handPosition,
                   previousGestures, handReports, physics, worldBodies, worldJoints, rigidBodies,
                   worldFault, staleJointRemovals, scoreData, events,
                   lastCutTime, timer,
                   animationFrames, tracker, spawner, everCut>>

----------------------------------------------------------------------------

Next ==
    \/ \E dt \in DeltaTimes : BrowserFrame(dt)
    \/ \E d \in Directions, t \in SpawnTreasures,
          th \in {"none", "spawn", "move"} : Update(d, t, th)
    \/ \E th \in BOOLEAN : PhysicsStep(th)
    \/ \E th \in BOOLEAN : SyncMeshes(th)
    \/ \E hits \in HitSets(ropes), th \in BOOLEAN : HandleClick(hits, th)
    \/ \E detected \in SUBSET Hands : OnHandResults(detected)
    \/ \E h \in Hands : HandleVCloseAction(h)
    \/ StopGame

Spec == Init /\ [][Next]_vars

----------------------------------------------------------------------------
(* The spawn controller on its own: SpawnManager after init(), driven by   *)
(* start(), stop() and update(deltaTime, elapsedTime) with any arguments.  *)

MaxElapsed == 31             \* elapsed session times range over 0..MaxElapsed
SpawnDeltas == {1, 2, 7}     \* delta times (s) passed to update()

SpawnOp(name) == [op |-> name, deltaTime |-> 0, elapsedTime |-> 0,
                  emitted |-> 0, speed |-> 0]

othersSpawn == <<now, pc, phases, segmentCount, ropes, ropeIdCounter,
                 handPosition,
                 previousGestures, handReports, physics, worldBodies, worldJoints, rigidBodies,
                 worldFault, staleJointRemovals, staleBodyReads, scoreData,
                 events, lastCutTime, timer,
                   animationFrames, tracker, everCut>>

InitSpawn ==
    /\ now = 0
    /\ pc = "idle"
    /\ phases = <<>>
    /\ segmentCount = 1
    /\ ropes = <<>>
    /\ ropeIdCounter = 0
    /\ handPosition = [h \in Hands |-> 0]
    /\ previousGestures = [h \in Hands |-> Unset]
    /\ handReports = [h \in Hands |-> NeverReported]
    /\ physics = PhysicsReady
    /\ worldBodies = {}
    /\ worldJoints = {}
    /\ rigidBodies = {}
    /\ worldFault = FALSE
    /\ staleJointRemovals = {}
    /\ staleBodyReads = {}
    /\ scoreData = [current |-> 0, combo |-> 0, maxCombo |-> 0,
                    totalTreasures |-> 0]
    /\ events = <<>>
    /\ lastCutTime = 0
    /\ timer = GameTimerNew
    /\ animationFrames = <<>>
    /\ tracker = TrackerNew
    /\ spawner = [isActive |-> FALSE, timeSinceLastSpawn |-> 0]
    /\ everCut = {}
    /\ lastOp = SpawnOp("init")

SpawnStart ==
    /\ spawner' = spawnerStart(spawner)
    /\ lastOp' = SpawnOp("start")
    /\ UNCHANGED othersSpawn

SpawnStop ==
    /\ spawner' = spawnerStop(spawner)
    /\ lastOp' = SpawnOp("stop")
    /\ UNCHANGED othersSpawn

(* update(): the events emitted are counted, with the speed they carry *)
SpawnUpdate(deltaTime, elapsedTime) ==
    /\ LET sm == spawnManagerUpdate(spawner, deltaTime, elapsedTime)
       IN  /\ spawner' = sm.spawner
           /\ lastOp' = [op |-> "spawnUpdate", deltaTime |-> deltaTime,
                         elapsedTime |-> elapsedTime,
                         emitted |-> IF sm.emit THEN 1 ELSE 0,
                         speed |-> IF sm.emit THEN sm.speed ELSE 0]
    /\ UNCHANGED othersSpawn

NextSpawn ==
    \/ SpawnStart
    \/ SpawnStop
    \/ \E dt \in SpawnDeltas, t \in 0..MaxElapsed : SpawnUpdate(dt, t)

SpecSpawn == InitSpawn /\ [][NextSpawn]_vars

----------------------------------------------------------------------------
(* The difficulty law on its own: the three getters of SpawnManager called *)
(* with any elapsed time, for any configured totalDuration.                *)

MaxRamp == 30                     \* largest totalDuration tried
RampDurations == (-2)..MaxRamp    \* totalDuration of the DifficultyConfig

DifficultyOp(elapsedTime, totalDuration) ==
    [op |-> "difficulty", elapsedTime |-> elapsedTime,
     totalDuration |-> totalDuration,
     difficulty |-> difficultyMultiplier(elapsedTime, totalDuration),
     interval |-> spawnIntervalAt(elapsedTime, totalDuration),
     speed |-> speedAt(elapsedTime, totalDuration)]

InitDifficulty ==
    /\ now = 0
    /\ pc = "idle"
    /\ phases = <<>>
    /\ segmentCount = 1
    /\ ropes = <<>>
    /\ ropeIdCounter = 0
    /\ handPosition = [h \in Hands |-> 0]
    /\ previousGestures = [h \in Hands |-> Unset]
    /\ handReports = [h \in Hands |-> NeverReported]
    /\ physics = PhysicsReady
    /\ worldBodies = {}
    /\ worldJoints = {}
    /\ rigidBodies = {}
    /\ worldFault = FALSE
    /\ staleJointRemovals = {}
    /\ staleBodyReads = {}
    /\ scoreData = [current |-> 0, combo |-> 0, maxCombo |-> 0,
                    totalTreasures |-> 0]
    /\ events = <<>>
    /\ lastCutTime = 0
    /\ timer = GameTimerNew
    /\ animationFrames = <<>>
    /\ tracker = TrackerNew
    /\ spawner = [isActive |-> FALSE, timeSinceLastSpawn |-> 0]
    /\ everCut = {}
    /\ \E t \in 0..MaxElapsed, dur \in RampDurations :
          lastOp = DifficultyOp(t, dur)

EvaluateDifficulty(elapsedTime, totalDuration) ==
    /\ lastOp' = DifficultyOp(elapsedTime, totalDuration)
    /\ UNCHANGED <<spawner, othersSpawn>>

NextDifficulty ==
    \E t \in 0..MaxElapsed, dur \in RampDurations : EvaluateDifficulty(t, dur)

SpecDifficulty == InitDifficulty /\ [][NextDifficulty]_vars

----------------------------------------------------------------------------
(* The score manager on its own: ScoreManager after init(), with the clock *)
(* advancing between calls of addScore(treasure) and update().             *)

MaxScoreTime == 9      \* the clock of the score runs stops here
MaxCuts == 3           \* cuts per score run

ScoreOp(name) == [op |-> name]

othersScore == <<pc, phases, segmentCount, ropes, ropeIdCounter,
                 handPosition,
                 previousGestures, handReports, physics, worldBodies, worldJoints, rigidBodies,
                 worldFault, staleJointRemovals, staleBodyReads, timer,
                   animationFrames, tracker,
                 spawner, everCut>>

InitScore ==
    /\ now = 0
    /\ pc = "idle"
    /\ phases = <<>>
    /\ segmentCount = 1
    /\ ropes = <<>>
    /\ ropeIdCounter = 0
    /\ handPosition = [h \in Hands |-> 0]
    /\ previousGestures = [h \in Hands |-> Unset]
    /\ handReports = [h \in Hands |-> NeverReported]
    /\ physics = PhysicsReady
    /\ worldBodies = {}
    /\ worldJoints = {}
    /\ rigidBodies = {}
    /\ worldFault = FALSE
    /\ staleJointRemovals = {}
    /\ staleBodyReads = {}
    /\ scoreData = [current |-> 0, combo |-> 0, maxCombo |-> 0,
                    totalTreasures |-> 0]
    /\ events = <<>>
    /\ lastCutTime = 0
    /\ timer = GameTimerNew
    /\ animationFrames = <<>>
    /\ tracker = TrackerNew
    /\ spawner = [isActive |-> FALSE, timeSinceLastSpawn |-> 0]
    /\ everCut = {}
    /\ lastOp = ScoreOp("init")

(* one second passes *)
ScoreTick ==
    /\ now < MaxScoreTime
    /\ now' = now + 1
    /\ lastOp' = ScoreOp("tick")
    /\ UNCHANGED <<scoreData, events, lastCutTime, othersScore>>

ScoreCut(treasureType) ==
    /\ Len(events) < MaxCuts
    /\ SetS(addScore(S, getTreasureConfig(treasureType), DateNow))
    /\ lastOp' = ScoreOp("cut")
    /\ UNCHANGED <<now, othersScore>>

ScoreUpdate ==
    /\ SetS(scoreUpdate(S, DateNow))
    /\ lastOp' = ScoreOp("scoreUpdate")
    /\ UNCHANGED <<now, othersScore>>

NextScore ==
    \/ ScoreTick
    \/ \E t \in TreasureTypes : ScoreCut(t)
    \/ ScoreUpdate

SpecScore == InitScore /\ [][NextScore]_vars

----------------------------------------------------------------------------
(* The award of addScore on its own, for any treasure and any combo *)

PointsOp(treasureType, combo) ==
    [op |-> "points", treasureType |-> treasureType, combo |-> combo,
     baseScore |-> getTreasureConfig(treasureType).score,
     points |-> pointsByCombo[getTreasureConfig(treasureType).score, combo]]

InitPoints ==
    /\ now = 0
    /\ pc = "idle"
    /\ phases = <<>>
    /\ segmentCount = 1
    /\ ropes = <<>>
    /\ ropeIdCounter = 0
    /\ handPosition = [h \in Hands |-> 0]
    /\ previousGestures = [h \in Hands |-> Unset]
    /\ handReports = [h \in Hands |-> NeverReported]
    /\ physics = PhysicsReady
    /\ worldBodies = {}
    /\ worldJoints = {}
    /\ rigidBodies = {}
    /\ worldFault = FALSE
    /\ staleJointRemovals = {}
    /\ staleBodyReads = {}
    /\ scoreData = [current |-> 0, combo |-> 0, maxCombo |-> 0,
                    totalTreasures |-> 0]
    /\ events = <<>>
    /\ lastCutTime = 0
    /\ timer = GameTimerNew
    /\ animationFrames = <<>>
    /\ tracker = TrackerNew
    /\ spawner = [isActive |-> FALSE, timeSinceLastSpawn |-> 0]
    /\ everCut = {}
    /\ lastOp = PointsOp("gold", 1)

EvaluatePoints(treasureType, combo) ==
    /\ lastOp' = PointsOp(treasureType, combo)
    /\ UNCHANGED <<spawner, othersSpawn>>

NextPoints ==
    \E t \in TreasureTypes, c \in 1..MaxCombo : EvaluatePoints(t, c)

SpecPoints == InitPoints /\ [][NextPoints]_vars

----------------------------------------------------------------------------
(* GestureTracker.ts, on the Map previousGestures.  A tracking frame is    *)
(* the list of hands MediaPipe reports: one entry per detected hand, with  *)
(* the handedness label and the top gesture category of that hand.  The    *)
(* labels of two hands of one frame are classified independently and may   *)
(* coincide.                                                               *)

NumHands == 2                     \* hands per frame, of either tracker
GestureTypes == {"None", "Victory", "Closed_Fist"}
NoCategory == "empty"             \* the gesture or handedness list is empty
HandOrder == <<"Left", "Right">>

Entries == [handedness : Hands, gesture : GestureTypes \cup {NoCategory}]
GestureFrames == UNION {[1..n -> Entries] : n \in 0..NumHands}

Callback(name, type, handedness, newGesture, previousGesture) ==
    [callback |-> name, type |-> type, handedness |-> handedness,
     gesture |-> newGesture, previousGesture |-> previousGesture]

(* GestureTracker.handleGestureChange: the callbacks it makes, in order *)
handleGestureChange(handedness, newGesture, previousGesture) ==
    <<Callback("onGestureChange", "gesture_change", handedness, newGesture,
               previousGesture)>>
    \o (IF newGesture = "Victory"
        THEN <<Callback("onVictoryDetected", "victory", handedness,
                        newGesture, previousGesture)>>
        ELSE <<>>)
    \o (IF previousGesture = "Victory" /\ newGesture # "Victory"
        THEN <<Callback("onVCloseAction", "v_close_action", handedness,
                        newGesture, previousGesture),
               Callback("onGestureChange", "v_close_action", handedness,
                        newGesture, previousGesture)>>
        ELSE <<>>)

(* variant: the gesture of a hand is stored for both hands *)
RECURSIVE EntriesLoop_SharedSlot(_, _, _)
EntriesLoop_SharedSlot(t, results, i) ==
    IF i > Len(results) THEN t
    ELSE LET handType == results[i].handedness
             gestureType == results[i].gesture
             stored == t.previousGestures[handType]
             previousGesture == IF stored = Unset THEN "None" ELSE stored
         IN  IF gestureType = NoCategory
             THEN EntriesLoop_SharedSlot(t, results, i + 1)
             ELSE EntriesLoop_SharedSlot(
                      [previousGestures |->
                           [h \in Hands |-> gestureType],
                       detectedHands |-> t.detectedHands \cup {handType},
                       fired |-> t.fired \o
                           (IF gestureType # previousGesture
                            THEN handleGestureChange(handType, gestureType,
                                                     previousGesture)
                            ELSE <<>>)],
                      results, i + 1)

(* onResults, the loop over results.gestures *)
RECURSIVE EntriesLoop(_, _, _)
EntriesLoop(t, results, i) ==
    IF i > Len(results) THEN t
    ELSE LET handType == results[i].handedness
             gestureType == results[i].gesture
             stored == t.previousGestures[handType]
             previousGesture == IF stored = Unset THEN "None" ELSE stored
         IN  IF gestureType = NoCategory
             THEN EntriesLoop(t, results, i + 1)
             ELSE EntriesLoop(
                      [previousGestures |->
                           [t.previousGestures EXCEPT ![handType] = gestureType],
                       detectedHands |-> t.detectedHands \cup {handType},
                       fired |-> t.fired \o
                           (IF gestureType # previousGesture
                            THEN handleGestureChange(handType, gestureType,
                                                     previousGesture)
                            ELSE <<>>)],
                      results, i + 1)

(* variant: the state of a hand that is not detected is left as it was *)
RECURSIVE MissingLoop_KeepsState(_, _)
MissingLoop_KeepsState(t, i) ==
    IF i > Len(HandOrder) THEN t
    ELSE LET handType == HandOrder[i]
             previousGesture == t.previousGestures[handType]
         IN  IF handType \notin t.detectedHands
                /\ previousGesture # Unset /\ previousGesture # "None"
             THEN MissingLoop_KeepsState(
                      [t EXCEPT !.fired = @ \o handleGestureChange(
                                     handType, "None", previousGesture)],
                      i + 1)
             ELSE MissingLoop_KeepsState(t, i + 1)

(* onResults, the loop over the hands that were not detected *)
RECURSIVE MissingLoop(_, _)
MissingLoop(t, i) ==
    IF i > Len(HandOrder) THEN t
    ELSE LET handType == HandOrder[i]
             previousGesture == t.previousGestures[handType]
         IN  IF handType \notin t.detectedHands
                /\ previousGesture # Unset /\ previousGesture # "None"
             THEN MissingLoop(
                      [t EXCEPT !.fired = @ \o handleGestureChange(
                                     handType, "None", previousGesture),
                                !.previousGestures[handType] = "None"],
                      i + 1)
             ELSE MissingLoop(t, i + 1)

onResults(previous, results) ==
    MissingLoop(EntriesLoop([previousGestures |-> previous,
                             detectedHands |-> {},
                             fired |-> <<>>], results, 1), 1)

----------------------------------------------------------------------------
(* main.ts onHandResults and GameManager's cached hand positions.  A hand  *)
(* position is the place on the screen it projects to; 0 is null.          *)

HandEntries(places) == [handedness : Hands, position : places]
HandFrames(places) == UNION {[1..n -> HandEntries(places)] : n \in 0..NumHands}

updateHandPosition(positions, handedness, position) ==
    [positions EXCEPT ![handedness] = position]

(* variant: hiding a hand keeps its cached position *)
hideHand_KeepsPosition(positions, handedness) == positions

hideHand(positions, handedness) == [positions EXCEPT ![handedness] = 0]

RECURSIVE UpdateHands(_, _, _)
UpdateHands(positions, hands, i) ==
    IF i > Len(hands) THEN positions
    ELSE UpdateHands(updateHandPosition(positions, hands[i].handedness,
                                        hands[i].position), hands, i + 1)

RECURSIVE HideMissing(_, _, _)
HideMissing(positions, detectedHands, i) ==
    IF i > Len(HandOrder) THEN positions
    ELSE HideMissing(IF HandOrder[i] \in detectedHands THEN positions
                     ELSE hideHand(positions, HandOrder[i]),
                     detectedHands, i + 1)

onHandResults(positions, hands) ==
    HideMissing(UpdateHands(positions, hands, 1),
                {hands[i].handedness : i \in 1..Len(hands)}, 1)

(* The answer of checkRopeHitRaycast for a query at a place: the ropes     *)
(* that hang there are hit, at their first segment.                        *)
HitsAt(rs, position) ==
    [id \in RopeIds(rs) |->
        IF rs[RopeIndex(rs, id)].x = position THEN 0 ELSE NoHit]

(* main.ts onVCloseAction -> GameManager.handleVCloseAction(handedness) *)
gestureCut(g, s, positions, handedness, currentTime) ==
    LET position == positions[handedness]
    IN  IF position = 0
        THEN [g |-> g, s |-> s, result |-> NoResult, threw |-> FALSE]
        ELSE handleVCloseAction(g, s, HitsAt(g.ropes, position), FALSE,
                                currentTime)

(* The cut actions of one tracking frame, delivered in order *)
RECURSIVE DeliverCuts(_, _, _, _, _)
DeliverCuts(st, fired, positions, i, currentTime) ==
    IF i > Len(fired) THEN st
    ELSE IF fired[i].callback # "onVCloseAction"
         THEN DeliverCuts(st, fired, positions, i + 1, currentTime)
    ELSE LET r == gestureCut(st.g, st.s, positions, fired[i].handedness,
                             currentTime)
         IN  DeliverCuts(
                 [g |-> r.g, s |-> r.s,
                  cuts |-> Append(st.cuts,
                      [handedness |-> fired[i].handedness,
                       position |-> positions[fired[i].handedness],
                       ropeId |-> r.result.ropeId,
                       points |-> r.s.scoreData.current
                                  - st.s.scoreData.current])],
                 fired, positions, i + 1, currentTime)

----------------------------------------------------------------------------
(* The gesture tracker on its own: GestureTracker after start(), fed one   *)
(* tracking frame after another, its callbacks recorded as they are made.  *)

GestureOp(results, fired) ==
    [op |-> "onResults", results |-> results, fired |-> fired]

othersGesture == <<now, pc, phases, segmentCount, ropes, ropeIdCounter,
                   handPosition, handReports, physics, worldBodies, worldJoints,
                   rigidBodies, worldFault, staleJointRemovals,
                   staleBodyReads, scoreData, events, lastCutTime, timer,
                   animationFrames, tracker,
                   spawner, everCut>>

InitGesture ==
    /\ now = 0
    /\ pc = "idle"
    /\ phases = <<>>
    /\ segmentCount = 1
    /\ ropes = <<>>
    /\ ropeIdCounter = 0
    /\ handPosition = [h \in Hands |-> 0]
    /\ previousGestures = [h \in Hands |-> Unset]
    /\ handReports = [h \in Hands |-> NeverReported]
    /\ physics = PhysicsReady
    /\ worldBodies = {}
    /\ worldJoints = {}
    /\ rigidBodies = {}
    /\ worldFault = FALSE
    /\ staleJointRemovals = {}
    /\ staleBodyReads = {}
    /\ scoreData = [current |-> 0, combo |-> 0, maxCombo |-> 0,
                    totalTreasures |-> 0]
    /\ events = <<>>
    /\ lastCutTime = 0
    /\ timer = GameTimerNew
    /\ animationFrames = <<>>
    /\ tracker = TrackerNew
    /\ spawner = [isActive |-> FALSE, timeSinceLastSpawn |-> 0]
    /\ everCut = {}
    /\ lastOp = GestureOp(<<>>, <<>>)

OnResults(results) ==
    LET t == onResults(previousGestures, results)
    IN  /\ previousGestures' = t.previousGestures
        /\ lastOp' = GestureOp(results, t.fired)
        /\ UNCHANGED othersGesture

NextGesture == \E results \in GestureFrames : OnResults(results)

SpecGesture == InitGesture /\ [][NextGesture]_vars

----------------------------------------------------------------------------
(* The two trackers and the game they drive: hand-tracking frames and      *)
(* gesture-tracking frames arrive in any order while one assembly hangs on *)
(* the screen.                                                             *)

RopePlace == -2 * PosScale        \* where the rope hangs
EmptyPlace == 2 * PosScale        \* a place where nothing hangs
GesturePlaces == {RopePlace, EmptyPlace}

TrackingOp(name) ==
    [op |-> name, detectedHands |-> {}, fired |-> <<>>, cuts |-> <<>>]

EmptyGame ==
    [ropes |-> <<>>, ropeIdCounter |-> 0, worldBodies |-> {},
     worldJoints |-> {}, rigidBodies |-> {}, staleJointRemovals |-> {},
     staleBodyReads |-> {}, moved |-> {}, removedInLoop |-> {}]

OneRope ==
    LET g1 == spawnRopeWithTreasure(EmptyGame, "left", "gold", 1)
    IN  [g1 EXCEPT !.ropes[1].x = RopePlace, !.ropes[1].nextX = RopePlace]

othersTracking == <<now, pc, phases, segmentCount, physics, worldFault, timer,
                   animationFrames, tracker,
                    spawner>>

InitTracking ==
    /\ now = 0
    /\ pc = "idle"
    /\ phases = <<>>
    /\ segmentCount = 1
    /\ ropes = OneRope.ropes
    /\ ropeIdCounter = OneRope.ropeIdCounter
    /\ handPosition = [h \in Hands |-> 0]
    /\ previousGestures = [h \in Hands |-> Unset]
    /\ handReports = [h \in Hands |-> NeverReported]
    /\ physics = PhysicsReady
    /\ worldBodies = OneRope.worldBodies
    /\ worldJoints = OneRope.worldJoints
    /\ rigidBodies = OneRope.rigidBodies
    /\ worldFault = FALSE
    /\ staleJointRemovals = {}
    /\ staleBodyReads = {}
    /\ scoreData = [current |-> 0, combo |-> 0, maxCombo |-> 0,
                    totalTreasures |-> 0]
    /\ events = <<>>
    /\ lastCutTime = 0
    /\ timer = [GameTimerNew EXCEPT !.isActive = TRUE]
    /\ animationFrames = <<>>
    /\ tracker = TrackerNew
    /\ spawner = [isActive |-> TRUE, timeSinceLastSpawn |-> 0]
    /\ everCut = {}
    /\ lastOp = TrackingOp("init")

(* HandTracker.onResults -> main.ts onHandResults *)
HandFrame(hands) ==
    /\ handPosition' = onHandResults(handPosition, hands)
    /\ handReports' =
          [h \in Hands |->
              LET mine == {i \in 1..Len(hands) : hands[i].handedness = h}
              IN  IF mine = {}
                  THEN [handReports[h] EXCEPT !.missing = TRUE]
                  ELSE [position |->
                            hands[CHOOSE i \in mine :
                                     \A j \in mine : j <= i].position,
                        missing |-> FALSE]]
    /\ lastOp' = TrackingOp("hands")
    /\ UNCHANGED <<previousGestures, ropes, ropeIdCounter, worldBodies,
                   worldJoints, rigidBodies, staleJointRemovals,
                   staleBodyReads, scoreData, events, lastCutTime, everCut,
                   othersTracking>>

(* GestureTracker.onResults, with the cut actions it fires resolved by     *)
(* the game manager before it returns                                      *)
GestureFrame(results) ==
    LET t == onResults(previousGestures, results)
        r == DeliverCuts([g |-> G, s |-> S, cuts |-> <<>>], t.fired,
                         handPosition, 1, DateNow)
    IN  /\ previousGestures' = t.previousGestures
        /\ SetG(r.g)
        /\ SetS(r.s)
        /\ lastOp' = [op |-> "gestures", detectedHands |-> t.detectedHands,
                      fired |-> t.fired, cuts |-> r.cuts]
        /\ UNCHANGED <<handPosition, handReports, othersTracking>>

NextTracking ==
    \/ \E hands \in HandFrames(GesturePlaces) : HandFrame(hands)
    \/ \E results \in GestureFrames : GestureFrame(results)

SpecTracking == InitTracking /\ [][NextTracking]_vars

----------------------------------------------------------------------------
(* The hit test of a gesture cut on its own, in the horizontal plane       *)
(* through the segment: cutRopeAtPoint(position) for the cached position   *)
(* of a hand and one segment of an uncut rope.  Lengths are in grid        *)
(* points of 0.05 world units; x runs across the screen and z towards the  *)
(* camera.  The window is one for which tan(fov / 2) * aspect = 1, so that *)
(* the normalised device x of a point is its x over its distance.          *)

Unit == 20                        \* grid points per world unit
CameraZ == 5 * Unit               \* CAMERA_CONFIG.position.z
HandDepth == 5 * Unit             \* convertTo3D(x, y, camera, 5)
SegmentRadius == 1                \* segmentRadius: 0.05
SegmentLength == 6                \* segmentLength: 0.3
ClientWidth == 1043               \* renderer.domElement.clientWidth

MaxHandX == 8                     \* the hand is at most this far off the axis
MaxSegmentX == 4                  \* and the segment this far
SegmentDepths == {-SegmentLength, 0, SegmentLength}

(* convertTo3D: the hand is put at the given x, HandDepth behind the       *)
(* origin (worldZ = -depth)                                                *)
convertTo3D(worldX) == [x |-> worldX, z |-> -HandDepth]

(* Vector3.project(camera): normalised device x *)
project(worldPos) == Rat(worldPos.x, CameraZ - worldPos.z)

(* GameManager.worldToScreen: (v.x * 0.5 + 0.5) * clientWidth *)
worldToScreen(worldPos) ==
    LET v == project(worldPos)
    IN  Rat((v.num + v.den) * ClientWidth, 2 * v.den)

(* cutRopeAtPoint: mouse.x = (screenPos.x / clientWidth) * 2 - 1 *)
mouseOf(screenPos) ==
    Rat(2 * screenPos.num - screenPos.den * ClientWidth,
        screenPos.den * ClientWidth)

(* checkRopeHitRaycast for the ray setFromCamera(mouse, camera): at the    *)
(* depth of the segment the ray is at x = mouse * distance, and it hits    *)
(* the cylinder when that is within its radius of the axis.                *)
checkRopeHitRaycast(segment, mouse) ==
    Abs(mouse.num * (CameraZ - segment.z) - segment.x * mouse.den)
        <= SegmentRadius * mouse.den

(* the test of cutRopeAtPoint(point) for one rope *)
hitByGesture(segment, point) ==
    checkRopeHitRaycast(segment, mouseOf(worldToScreen(point)))

HitTestOp(worldX, segment) ==
    [op |-> "hitTest", position |-> convertTo3D(worldX), segment |-> segment,
     cut |-> hitByGesture(segment, convertTo3D(worldX))]

InitHitTest ==
    /\ now = 0
    /\ pc = "idle"
    /\ phases = <<>>
    /\ segmentCount = 1
    /\ ropes = <<>>
    /\ ropeIdCounter = 0
    /\ handPosition = [h \in Hands |-> 0]
    /\ previousGestures = [h \in Hands |-> Unset]
    /\ handReports = [h \in Hands |-> NeverReported]
    /\ physics = PhysicsReady
    /\ worldBodies = {}
    /\ worldJoints = {}
    /\ rigidBodies = {}
    /\ worldFault = FALSE
    /\ staleJointRemovals = {}
    /\ staleBodyReads = {}
    /\ scoreData = [current |-> 0, combo |-> 0, maxCombo |-> 0,
                    totalTreasures |-> 0]
    /\ events = <<>>
    /\ lastCutTime = 0
    /\ timer = GameTimerNew
    /\ animationFrames = <<>>
    /\ tracker = TrackerNew
    /\ spawner = [isActive |-> FALSE, timeSinceLastSpawn |-> 0]
    /\ everCut = {}
    /\ lastOp = [HitTestOp(0, [x |-> 0, z |-> 0]) EXCEPT !.op = "init"]

EvaluateHitTest(worldX, segment) ==
    /\ lastOp' = HitTestOp(worldX, segment)
    /\ UNCHANGED <<previousGestures, othersGesture>>

NextHitTest ==
    \E worldX \in (-MaxHandX)..MaxHandX, sx \in (-MaxSegmentX)..MaxSegmentX,
       sz \in SegmentDepths : EvaluateHitTest(worldX, [x |-> sx, z |-> sz])

SpecHitTest == InitHitTest /\ [][NextHitTest]_vars

----------------------------------------------------------------------------
(* Physics.ts on its own, from the constructor on.  The operators take and *)
(* return the record p of the adapter's fields together with the bodies of *)
(* its world, and say how the call ended.  A body is the number of its     *)
(* creation; the registry rigidBodies holds <<id, body>> pairs.            *)

MaxBodies == 2                    \* bodies created in one run
MaxBodyId == 2                    \* registrations in one run

Returned(p) == [p |-> p, outcome |-> "returned", warned |-> FALSE]
Threw(p) == [p |-> p, outcome |-> "threw", warned |-> FALSE]

(* init(): RAPIER.init(), then a new World *)
physicsInit(p) ==
    Returned([p EXCEPT !.RAPIER = TRUE, !.world = TRUE, !.worldBodies = {}])

(* step(): warns and returns when there is no world *)
physicsStep(p) ==
    IF ~p.world THEN [Returned(p) EXCEPT !.warned = TRUE] ELSE Returned(p)

createRigidBody(p) ==
    IF ~p.world THEN Threw(p)
    ELSE Returned([p EXCEPT !.bodyHandles = @ + 1,
                            !.worldBodies = @ \cup {p.bodyHandles + 1}])

createCollider(p, body) == IF ~p.world THEN Threw(p) ELSE Returned(p)

registerBody(p, body) ==
    Returned([p EXCEPT !.bodyIdCounter = @ + 1,
                       !.rigidBodies = @ \cup {<<p.bodyIdCounter, body>>}])

unregisterBody(p, id) ==
    LET handle == {e \in p.rigidBodies : e[1] = id}
    IN  IF handle # {} /\ p.world
        THEN Returned([p EXCEPT
                 !.worldBodies = @ \ {e[2] : e \in handle},
                 !.rigidBodies = @ \ handle])
        ELSE Returned(p)

(* syncMeshes(): reads every registered body; throws tells whether a read  *)
(* of a body whose world has been freed raised                             *)
physicsSyncMeshes(p, throws) == IF throws THEN Threw(p) ELSE Returned(p)

StaleBodies(p) == {e \in p.rigidBodies : e[2] \notin p.worldBodies}

getWorld(p) == IF ~p.world THEN Threw(p) ELSE Returned(p)

getRAPIER(p) == IF ~p.RAPIER THEN Threw(p) ELSE Returned(p)

createDebugBall(p) ==
    IF ~p.world \/ ~p.RAPIER THEN Threw(p)
    ELSE registerBody(createRigidBody(p).p, p.bodyHandles + 1)

(* dispose(): clears the registry and frees the world; RAPIER is kept *)
physicsDispose(p) ==
    Returned([p EXCEPT !.rigidBodies = {}, !.world = FALSE,
                       !.worldBodies = {}])

P == [RAPIER |-> physics.RAPIER, world |-> physics.world,
      bodyIdCounter |-> physics.bodyIdCounter,
      bodyHandles |-> physics.bodyHandles,
      worldBodies |-> worldBodies, rigidBodies |-> rigidBodies]

othersPhysics == <<now, pc, phases, segmentCount, ropes, ropeIdCounter,
                   handPosition, previousGestures, handReports, worldJoints,
                   worldFault, staleJointRemovals, staleBodyReads, scoreData,
                   events, lastCutTime, timer,
                   animationFrames, tracker, spawner, everCut>>

(* the call of an operation: the fields it leaves and how it ended *)
Called(name, r) ==
    /\ physics' = [RAPIER |-> r.p.RAPIER, world |-> r.p.world,
                   bodyIdCounter |-> r.p.bodyIdCounter,
                   bodyHandles |-> r.p.bodyHandles]
    /\ worldBodies' = r.p.worldBodies
    /\ rigidBodies' = r.p.rigidBodies
    /\ lastOp' = [op |-> name, initialized |-> physics.world,
                  outcome |-> r.outcome, warned |-> r.warned]
    /\ UNCHANGED othersPhysics

InitPhysics ==
    /\ now = 0
    /\ pc = "idle"
    /\ phases = <<>>
    /\ segmentCount = 1
    /\ ropes = <<>>
    /\ ropeIdCounter = 0
    /\ handPosition = [h \in Hands |-> 0]
    /\ previousGestures = [h \in Hands |-> Unset]
    /\ handReports = [h \in Hands |-> NeverReported]
    /\ physics = PhysicsNew
    /\ worldBodies = {}
    /\ worldJoints = {}
    /\ rigidBodies = {}
    /\ worldFault = FALSE
    /\ staleJointRemovals = {}
    /\ staleBodyReads = {}
    /\ scoreData = [current |-> 0, combo |-> 0, maxCombo |-> 0,
                    totalTreasures |-> 0]
    /\ events = <<>>
    /\ lastCutTime = 0
    /\ timer = GameTimerNew
    /\ animationFrames = <<>>
    /\ tracker = TrackerNew
    /\ spawner = [isActive |-> FALSE, timeSinceLastSpawn |-> 0]
    /\ everCut = {}
    /\ lastOp = [op |-> "new", initialized |-> FALSE, outcome |-> "returned",
                 warned |-> FALSE]

PhysicsCallInit ==
    /\ ~physics.world
    /\ Called("init", physicsInit(P))

PhysicsCallStep ==
    /\ pc = "idle"
    /\ Called("step", physicsStep(P))

PhysicsCallCreateRigidBody ==
    /\ physics.bodyHandles < MaxBodies
    /\ Called("createRigidBody", createRigidBody(P))

PhysicsCallCreateCollider(body) ==
    /\ pc = "idle"
    /\ Called("createCollider", createCollider(P, body))

PhysicsCallRegisterBody(body) ==
    /\ physics.bodyIdCounter < MaxBodyId
    /\ Called("registerBody", registerBody(P, body))

PhysicsCallUnregisterBody(id) ==
    /\ pc = "idle"
    /\ Called("unregisterBody", unregisterBody(P, id))

PhysicsCallSyncMeshes(throws) ==
    /\ throws => StaleBodies(P) # {}
    /\ Called("syncMeshes", physicsSyncMeshes(P, throws))

PhysicsCallGetWorld ==
    /\ pc = "idle"
    /\ Called("getWorld", getWorld(P))

PhysicsCallGetRAPIER ==
    /\ pc = "idle"
    /\ Called("getRAPIER", getRAPIER(P))

PhysicsCallCreateDebugBall ==
    /\ physics.bodyHandles < MaxBodies
    /\ physics.bodyIdCounter < MaxBodyId
    /\ Called("createDebugBall", createDebugBall(P))

PhysicsCallDispose ==
    /\ pc = "idle"
    /\ Called("dispose", physicsDispose(P))

NextPhysics ==
    \/ PhysicsCallInit
    \/ PhysicsCallStep
    \/ PhysicsCallCreateRigidBody
    \/ \E body \in 1..physics.bodyHandles : PhysicsCallCreateCollider(body)
    \/ \E body \in 1..physics.bodyHandles : PhysicsCallRegisterBody(body)
    \/ \E id \in 0..(MaxBodyId - 1) : PhysicsCallUnregisterBody(id)
    \/ \E throws \in BOOLEAN : PhysicsCallSyncMeshes(throws)
    \/ PhysicsCallGetWorld
    \/ PhysicsCallGetRAPIER
    \/ PhysicsCallCreateDebugBall
    \/ PhysicsCallDispose

SpecPhysics == InitPhysics /\ [][NextPhysics]_vars

----------------------------------------------------------------------------
(* Building assemblies for any configured segment count, zero included:    *)
(* GameManager.spawnRopeWithTreasure over RopeFactory.create,              *)
(* connectSegments and attachTreasure.                                     *)

(* variant: an empty chain is accepted and its treasure hangs from the     *)
(* anchor                                                                  *)
spawnRope_AcceptsEmpty(g, direction, treasureType, config) ==
    IF config = 0
    THEN LET id == g.ropeIdCounter
             startX == IF direction = "left" THEN -StartX ELSE StartX
             rope == [id         |-> id,
                      segments   |-> <<>>,
                      treasure   |-> [body   |-> <<id, 1>>,
                                      config |-> getTreasureConfig(treasureType)],
                      joints     |-> <<Joint(<<id, 0>>, <<id, 1>>)>>,
                      direction  |-> direction,
                      speed      |-> DefaultSpeed * PosScale,
                      anchorBody |-> <<id, 0>>,
                      isCut      |-> FALSE,
                      x          |-> startX * PosScale,
                      nextX      |-> startX * PosScale]
         IN  [g |-> [g EXCEPT !.ropeIdCounter = id + 1,
                              !.ropes = Append(@, rope),
                              !.worldBodies = @ \cup RopeBodies(rope),
                              !.worldJoints = @ \cup Range(rope.joints),
                              !.rigidBodies = @ \cup {<<id, 1>>}],
              threw |-> FALSE]
    ELSE [g |-> spawnRopeWithTreasure(g, direction, treasureType, config),
          threw |-> FALSE]

(* spawnRopeWithTreasure for any segment count.  With no segment, create   *)
(* returns the anchor alone, connectSegments returns no joint,             *)
(* createTreasure makes and registers the treasure body, and               *)
(* attachTreasure reads lastSegment.body of segments[-1], which is         *)
(* undefined: a TypeError, raised before this.ropes.set(id, ...).          *)
spawnRope(g, direction, treasureType, config) ==
    IF config = 0
    THEN LET id == g.ropeIdCounter
             anchorBody == createRope(id, config).anchorBody
             treasureBody == <<id, 1>>
         IN  [g |-> [g EXCEPT !.ropeIdCounter = id + 1,
                              !.worldBodies = @ \cup {anchorBody, treasureBody},
                              !.rigidBodies = @ \cup {treasureBody}],
              threw |-> TRUE]
    ELSE [g |-> spawnRopeWithTreasure(g, direction, treasureType, config),
          threw |-> FALSE]

BuildOp(name, threw) == [op |-> name, threw |-> threw]

othersBuild == <<now, pc, phases, segmentCount, handPosition,
                 previousGestures, handReports, physics, worldFault,
                 scoreData, events, lastCutTime, timer,
                   animationFrames, tracker, spawner>>

InitBuild ==
    /\ now = 0
    /\ pc = "idle"
    /\ phases = <<>>
    /\ segmentCount \in 0..MaxSegments
    /\ ropes = <<>>
    /\ ropeIdCounter = 0
    /\ handPosition = [h \in Hands |-> 0]
    /\ previousGestures = [h \in Hands |-> Unset]
    /\ handReports = [h \in Hands |-> NeverReported]
    /\ physics = PhysicsReady
    /\ worldBodies = {}
    /\ worldJoints = {}
    /\ rigidBodies = {}
    /\ worldFault = FALSE
    /\ staleJointRemovals = {}
    /\ staleBodyReads = {}
    /\ scoreData = [current |-> 0, combo |-> 0, maxCombo |-> 0,
                    totalTreasures |-> 0]
    /\ events = <<>>
    /\ lastCutTime = 0
    /\ timer = GameTimerNew
    /\ animationFrames = <<>>
    /\ tracker = TrackerNew
    /\ spawner = [isActive |-> FALSE, timeSinceLastSpawn |-> 0]
    /\ everCut = {}
    /\ lastOp = BuildOp("init", FALSE)

(* spawnRopeWithTreasure(direction), with the treasure type it draws *)
BuildRope(direction, treasureType) ==
    /\ ropeIdCounter < MaxRopeId
    /\ LET r == spawnRope(G, direction, treasureType, segmentCount)
       IN  /\ SetG(r.g)
           /\ lastOp' = BuildOp("build", r.threw)
    /\ UNCHANGED othersBuild

NextBuild ==
    \E d \in Directions, t \in TreasureTypes : BuildRope(d, t)

SpecBuild == InitBuild /\ [][NextBuild]_vars

----------------------------------------------------------------------------
(* Assemblies in flight: GameManager after init(), with ropes spawned by   *)
(* direct calls of spawnRopeWithTreasure (speed 1.0, as the timed spawns   *)
(* of startGame make them), cut by clicks, and moved by frames of          *)
(* update(deltaTime), physics.step() and syncMeshes().  The timer and the  *)
(* spawn controller are not running and Date.now() stands still: the time  *)
(* that moves the ropes is the deltaTime update() is given.                *)

MaxMoveRopes == 2      \* ropes spawned per run
MoveDeltas == {2, 6}   \* delta times (s) passed to update()

InitMove ==
    /\ now = 0
    /\ pc = "idle"
    /\ phases = <<>>
    /\ segmentCount = 1
    /\ ropes = <<>>
    /\ ropeIdCounter = 0
    /\ handPosition = [h \in Hands |-> 0]
    /\ previousGestures = [h \in Hands |-> Unset]
    /\ handReports = [h \in Hands |-> NeverReported]
    /\ physics = PhysicsReady
    /\ worldBodies = {}
    /\ worldJoints = {}
    /\ rigidBodies = {}
    /\ worldFault = FALSE
    /\ staleJointRemovals = {}
    /\ staleBodyReads = {}
    /\ scoreData = [current |-> 0, combo |-> 0, maxCombo |-> 0,
                    totalTreasures |-> 0]
    /\ events = <<>>
    /\ lastCutTime = 0
    /\ timer = GameTimerNew
    /\ animationFrames = <<>>
    /\ tracker = TrackerNew
    /\ spawner = [isActive |-> FALSE, timeSinceLastSpawn |-> 0]
    /\ everCut = {}
    /\ lastOp = Op("init")

(* gameManager.spawnRopeWithTreasure(direction), dispatched between frames *)
MoveSpawn(direction, treasureType, throws) ==
    /\ pc = "idle"
    /\ ropeIdCounter < MaxMoveRopes
    /\ throws => worldFault
    /\ SetG(IF throws THEN spawnRopeThrows(G)
            ELSE spawnRopeWithTreasure(G, direction, treasureType,
                                       segmentCount))
    /\ lastOp' = [Op("spawn") EXCEPT !.threw = throws]
    /\ UNCHANGED <<now, pc, phases, segmentCount, handPosition,
                   previousGestures, handReports, physics, worldFault,
                   scoreData, events, lastCutTime, timer,
                   animationFrames, tracker, spawner>>

(* One pass of animate(): update(deltaTime), physics.step(), syncMeshes().  *)
(* throws names the call that raises: "move" (setNextKinematicTranslation  *)
(* in update(), on an unusable world), "step" (on an unusable world),      *)
(* "sync" (syncMeshes reading a body that was removed from the world,      *)
(* which leaves the world unusable) or "none".  What ran before the call   *)
(* that raises stays done.                                                 *)
MoveFrame(deltaTime, throws) ==
    /\ pc = "idle"
    /\ ropes # <<>>
    /\ throws \in {"move", "step"} => worldFault
    /\ \E g2 \in {MoveRopes(G, IdsInOrder(ropes), deltaTime)} :
       \E stale \in {g2.rigidBodies \ g2.worldBodies} :
       \E stepped \in {[g2 EXCEPT
                          !.ropes = [i \in 1..Len(g2.ropes) |->
                                        [g2.ropes[i] EXCEPT
                                            !.x = g2.ropes[i].nextX]],
                          !.staleBodyReads = stale]} :
           /\ throws = "sync" => stale # {}
           /\ CASE throws = "move" ->
                     /\ SetG(G)
                     /\ SetS(S)
                     /\ phases' = SubSeq(UpdatePhases, 1, 2)
                     /\ worldFault' = worldFault
                     /\ lastOp' = [Op("frame") EXCEPT !.threw = TRUE,
                                                      !.deltaTime = deltaTime]
                [] throws = "step" ->
                     /\ SetG(g2)
                     /\ SetS(scoreUpdate(S, DateNow))
                     /\ phases' = UpdatePhases
                     /\ worldFault' = worldFault
                     /\ lastOp' = [Op("frame") EXCEPT
                                      !.threw = TRUE,
                                      !.deltaTime = deltaTime,
                                      !.moved = g2.moved,
                                      !.removedInLoop = g2.removedInLoop]
                [] OTHER ->
                     /\ SetG(stepped)
                     /\ SetS(scoreUpdate(S, DateNow))
                     /\ phases' = UpdatePhases \o <<"step", "sync">>
                     /\ worldFault' = (worldFault \/ throws = "sync")
                     /\ lastOp' = [Op("frame") EXCEPT
                                      !.threw = (throws = "sync"),
                                      !.deltaTime = deltaTime,
                                      !.moved = g2.moved,
                                      !.removedInLoop = g2.removedInLoop]
    /\ UNCHANGED <<now, pc, segmentCount, handPosition, previousGestures,
                   handReports, physics, timer,
                   animationFrames, tracker, spawner>>

NextMove ==
    \/ \E d \in Directions, th \in BOOLEAN : MoveSpawn(d, "gold", th)
    \/ \E dt \in MoveDeltas, th \in {"none", "move", "step", "sync"} :
           MoveFrame(dt, th)
    \/ \E hits \in HitSets(ropes), th \in BOOLEAN : HandleClick(hits, th)

SpecMove == InitMove /\ [][NextMove]_vars

(* a frame whose update() and physics step complete *)
CompleteFrame == \E dt \in MoveDeltas : MoveFrame(dt, "none")

(* The same runs in which frames keep coming whose update() and physics    *)
(* step complete: WF_vars(CompleteFrame), with ENABLED written out (such a *)
(* frame can run whenever the loop is idle and ropes are in flight).       *)
SpecMoveFair ==
    /\ SpecMove
    /\ \/ []<>(~(pc = "idle" /\ ropes # <<>>))
       \/ []<><<CompleteFrame>>_vars

----------------------------------------------------------------------------
(* The session timer on its own: GameTimer after init({duration: 30}) with *)
(* GameManager's callbacks, under any order of start(), stop(), pause(),   *)
(* resume() and animation frames.                                          *)

MaxLoops == 2          \* start() is not called with this many callbacks waiting
MaxCallTime == 20      \* start, stop, pause and resume are called up to here
MaxTimerClock == 60    \* the animation frames of the timer runs stop here
TimerDeltas == {5, 10} \* seconds between two animation frames

(* window.requestAnimationFrame: the handle of the registered callback.    *)
(* Handles are told apart only by identity, so the smallest positive one   *)
(* that is neither waiting nor stored in the caller's field is given out.  *)
requestAnimationFrame(frames, stored) ==
    CHOOSE h \in 1..(Len(frames) + 2) :
        /\ h \notin Range(frames) \cup {stored}
        /\ \A k \in 1..(h - 1) : k \in Range(frames) \cup {stored}

(* window.cancelAnimationFrame: no effect on a handle that is not waiting *)
cancelAnimationFrame(frames, handle) ==
    SelectSeq(frames, LAMBDA h : h # handle)

(* w is the timer with the browser's waiting callbacks and the callbacks   *)
(* made so far by the running operation: the remaining times passed to     *)
(* onTick and the number of onTimeUp calls.                                *)
TimerWorld == [timer |-> timer, frames |-> animationFrames,
               onTick |-> <<>>, onTimeUp |-> 0]

gameTimerStop(w) ==
    [w EXCEPT !.frames = IF w.timer.animationFrameId # NoFrame
                         THEN cancelAnimationFrame(@, w.timer.animationFrameId)
                         ELSE @,
              !.timer = timerStop(@)]

(* variant: the time-up flag is not consulted and the timer is not stopped *)
gameTimerUpdateLoop_FiresEveryTick(w, clock) ==
    IF ~w.timer.isActive \/ w.timer.isPaused THEN w
    ELSE
    LET remaining == getRemainingTime(w.timer, clock)
        ticked == [w EXCEPT !.onTick = Append(@, remaining)]
        fired == IF remaining <= 0
                 THEN [ticked EXCEPT !.timer.hasTimeUpFired = TRUE,
                                     !.onTimeUp = @ + 1]
                 ELSE ticked
        handle == requestAnimationFrame(fired.frames,
                                        fired.timer.animationFrameId)
    IN  [fired EXCEPT !.timer.animationFrameId = handle,
                      !.frames = Append(@, handle)]

(* GameTimer.updateLoop, called by start() and by the browser.  onTimeUp   *)
(* is GameManager.endGame, which calls gameTimer.stop() itself before      *)
(* updateLoop calls this.stop().                                           *)
gameTimerUpdateLoop(w, clock) ==
    IF ~w.timer.isActive \/ w.timer.isPaused THEN w
    ELSE
    LET remaining == getRemainingTime(w.timer, clock)
        ticked == [w EXCEPT !.onTick = Append(@, remaining)]
    IN  IF remaining <= 0 /\ ~w.timer.hasTimeUpFired
        THEN gameTimerStop(gameTimerStop(
                 [ticked EXCEPT !.timer.hasTimeUpFired = TRUE,
                                !.onTimeUp = @ + 1]))
        ELSE LET handle == requestAnimationFrame(ticked.frames,
                                                 ticked.timer.animationFrameId)
             IN  [ticked EXCEPT !.timer.animationFrameId = handle,
                                !.frames = Append(@, handle)]

gameTimerStart(w, clock) ==
    gameTimerUpdateLoop(
        [w EXCEPT !.timer.startTime = clock,
                  !.timer.pausedTime = 0,
                  !.timer.isPaused = FALSE,
                  !.timer.isActive = TRUE,
                  !.timer.hasTimeUpFired = FALSE],
        clock)

gameTimerPause(w, clock) ==
    IF ~w.timer.isActive \/ w.timer.isPaused THEN w
    ELSE [w EXCEPT !.timer.pausedTime = getElapsedTime(w.timer, clock),
                   !.timer.isPaused = TRUE]

gameTimerResume(w, clock) ==
    IF ~w.timer.isActive \/ ~w.timer.isPaused THEN w
    ELSE [w EXCEPT !.timer.startTime = clock - w.timer.pausedTime,
                   !.timer.isPaused = FALSE]

(* One animation frame: the callbacks that were waiting when it began run  *)
(* oldest first, unless cancelled meanwhile; the ones they register wait   *)
(* for the next frame.                                                     *)
RECURSIVE RunTimerCallbacks(_, _, _)
RunTimerCallbacks(w, handles, clock) ==
    IF handles = <<>> THEN w
    ELSE IF Head(handles) \notin Range(w.frames)
    THEN RunTimerCallbacks(w, Tail(handles), clock)
    ELSE RunTimerCallbacks(
             gameTimerUpdateLoop(
                 [w EXCEPT !.frames = cancelAnimationFrame(@, Head(handles))],
                 clock),
             Tail(handles), clock)

(* sinceStart counts the onTimeUp calls since the last start() *)
TimerOp(name, w, sinceStart) ==
    [op |-> name, onTick |-> w.onTick, onTimeUp |-> w.onTimeUp,
     sinceStart |-> sinceStart + w.onTimeUp]

othersTimer == <<pc, phases, segmentCount, ropes, ropeIdCounter, handPosition,
                 previousGestures, handReports, physics, worldBodies,
                 worldJoints, rigidBodies, worldFault, staleJointRemovals,
                 staleBodyReads, scoreData, events, lastCutTime, tracker,
                 spawner, everCut>>

InitTimer ==
    /\ now = 0
    /\ pc = "idle"
    /\ phases = <<>>
    /\ segmentCount = 1
    /\ ropes = <<>>
    /\ ropeIdCounter = 0
    /\ handPosition = [h \in Hands |-> 0]
    /\ previousGestures = [h \in Hands |-> Unset]
    /\ handReports = [h \in Hands |-> NeverReported]
    /\ physics = PhysicsReady
    /\ worldBodies = {}
    /\ worldJoints = {}
    /\ rigidBodies = {}
    /\ worldFault = FALSE
    /\ staleJointRemovals = {}
    /\ staleBodyReads = {}
    /\ scoreData = [current |-> 0, combo |-> 0, maxCombo |-> 0,
                    totalTreasures |-> 0]
    /\ events = <<>>
    /\ lastCutTime = 0
    /\ timer = GameTimerNew
    /\ animationFrames = <<>>
    /\ tracker = TrackerNew
    /\ spawner = [isActive |-> FALSE, timeSinceLastSpawn |-> 0]
    /\ everCut = {}
    /\ lastOp = TimerOp("init", TimerWorld, 0)

SetTimerWorld(w) ==
    /\ timer' = w.timer
    /\ animationFrames' = w.frames

TimerStart ==
    /\ now <= MaxCallTime
    /\ Len(animationFrames) < MaxLoops
    /\ \E w \in {gameTimerStart(TimerWorld, now)} :
           /\ SetTimerWorld(w)
           /\ lastOp' = TimerOp("start", w, 0)
    /\ UNCHANGED <<now, othersTimer>>

TimerStop ==
    /\ now <= MaxCallTime
    /\ \E w \in {gameTimerStop(TimerWorld)} :
           /\ SetTimerWorld(w)
           /\ lastOp' = TimerOp("stop", w, lastOp.sinceStart)
    /\ UNCHANGED <<now, othersTimer>>

TimerPause ==
    /\ now <= MaxCallTime
    /\ \E w \in {gameTimerPause(TimerWorld, now)} :
           /\ SetTimerWorld(w)
           /\ lastOp' = TimerOp("pause", w, lastOp.sinceStart)
    /\ UNCHANGED <<now, othersTimer>>

TimerResume ==
    /\ now <= MaxCallTime
    /\ \E w \in {gameTimerResume(TimerWorld, now)} :
           /\ SetTimerWorld(w)
           /\ lastOp' = TimerOp("resume", w, lastOp.sinceStart)
    /\ UNCHANGED <<now, othersTimer>>

TimerFrame(deltaTime) ==
    /\ now + deltaTime <= MaxTimerClock
    /\ now' = now + deltaTime
    /\ \E w \in {RunTimerCallbacks(TimerWorld, animationFrames,
                                   now + deltaTime)} :
           /\ SetTimerWorld(w)
           /\ lastOp' = TimerOp("frame", w, lastOp.sinceStart)
    /\ UNCHANGED othersTimer

NextTimer ==
    \/ TimerStart
    \/ TimerStop
    \/ TimerPause
    \/ TimerResume
    \/ \E dt \in TimerDeltas : TimerFrame(dt)

SpecTimer == InitTimer /\ [][NextTimer]_vars

(* the browser keeps delivering animation frames *)
SpecTimerFair == SpecTimer /\ WF_vars(\E dt \in TimerDeltas : TimerFrame(dt))

----------------------------------------------------------------------------
(* A tracker on its own: GestureTracker or HandTracker after init(), under *)
(* any order of start(), stop() and animation frames.  A results callback  *)
(* may call stop().                                                        *)

Trackers == {"GestureTracker", "HandTracker"}

(* where a callback of the frame calls stop(): in the handleGestureChange  *)
(* of entry index of results.gestures, in that of the missing hand         *)
(* HandOrder[index], in HandTracker's onResults callback, or nowhere.      *)
NoStop == [loop |-> "none", index |-> 0]
StopPoints ==
    {NoStop, [loop |-> "callback", index |-> 1]}
    \cup [loop : {"entries"}, index : 1..NumHands]
    \cup [loop : {"missing"}, index : 1..Len(HandOrder)]

StartOfFrame(previous) ==
    [previousGestures |-> previous, detectedHands |-> {}, fired |-> <<>>]

(* onResults when the handleGestureChange of entry j calls stop(): the Map *)
(* is cleared there, line 218 stores the entry's gesture, the loops go on. *)
onResultsStopInEntries(previous, results, j) ==
    LET upTo == EntriesLoop(StartOfFrame(previous), SubSeq(results, 1, j), 1)
        cleared == [upTo EXCEPT !.previousGestures =
                        [h \in Hands |-> IF h = results[j].handedness
                                         THEN results[j].gesture ELSE Unset]]
    IN  MissingLoop(EntriesLoop(cleared, results, j + 1), 1)

(* onResults when the handleGestureChange of the missing hand HandOrder[m] *)
(* calls stop(): line 230 stores "None" for it after the Map was cleared.  *)
onResultsStopInMissing(previous, results, m) ==
    LET entries == EntriesLoop(StartOfFrame(previous), results, 1)
        upTo == MissingLoop(
                    [entries EXCEPT !.previousGestures =
                         [h \in Hands |->
                             IF \E i \in 1..m : HandOrder[i] = h
                             THEN entries.previousGestures[h] ELSE Unset]],
                    1)
    IN  [upTo EXCEPT !.previousGestures =
             [h \in Hands |-> IF h = HandOrder[m] THEN "None" ELSE Unset]]

(* the handleGestureChange named by the stop point is called in this frame *)
StopPointReached(kind, previous, results, stopAt) ==
    CASE stopAt.loop = "none" -> TRUE
      [] stopAt.loop = "callback" -> kind = "HandTracker"
      [] stopAt.loop = "entries" ->
             /\ kind = "GestureTracker"
             /\ stopAt.index <= Len(results)
             /\ Len(EntriesLoop(StartOfFrame(previous),
                                SubSeq(results, 1, stopAt.index), 1).fired)
                > Len(EntriesLoop(StartOfFrame(previous),
                                  SubSeq(results, 1, stopAt.index - 1), 1).fired)
      [] stopAt.loop = "missing" ->
             /\ kind = "GestureTracker"
             /\ LET entries == EntriesLoop(StartOfFrame(previous), results, 1)
                    handType == HandOrder[stopAt.index]
                IN  /\ handType \notin entries.detectedHands
                    /\ entries.previousGestures[handType] \notin {Unset, "None"}

(* what a detection loop is given when it runs: whether the video has a    *)
(* frame, what MediaPipe reports for it, and where a callback calls stop() *)
TrackerInputs(kind) ==
    {in \in [ready : BOOLEAN, results : GestureFrames, stopAt : StopPoints] :
        /\ kind = "HandTracker" => in.results = <<>>
        /\ ~in.ready => in.results = <<>> /\ in.stopAt = NoStop}

(* w is the tracker with the browser's waiting callbacks, the Map          *)
(* previousGestures, and what the running operation has done so far: the   *)
(* callbacks made, the video frames processed, whether stop() was called   *)
(* from a callback.                                                        *)
TrackerWorld == [tracker |-> tracker, frames |-> animationFrames,
                 previousGestures |-> previousGestures, fired |-> <<>>,
                 processed |-> 0, stopped |-> FALSE]

(* variant: stop() leaves the previous gestures in place *)
trackerStop_KeepsGestures(w) ==
    [w EXCEPT !.frames = IF w.tracker.animationId # NoFrame
                         THEN cancelAnimationFrame(@, w.tracker.animationId)
                         ELSE @,
              !.tracker.tracking = FALSE,
              !.tracker.animationId = NoFrame]

(* GestureTracker.stop and HandTracker.stop *)
trackerStop(w) ==
    [w EXCEPT !.frames = IF w.tracker.animationId # NoFrame
                         THEN cancelAnimationFrame(@, w.tracker.animationId)
                         ELSE @,
              !.tracker.tracking = FALSE,
              !.tracker.animationId = NoFrame,
              !.previousGestures =
                  IF w.tracker.kind = "GestureTracker"
                  THEN [h \in Hands |-> Unset] ELSE @]

Schedule(w) ==
    LET handle == requestAnimationFrame(w.frames, w.tracker.animationId)
    IN  [w EXCEPT !.tracker.animationId = handle,
                  !.frames = Append(@, handle)]

(* the call of onResults in a detection loop; stop() is called from a      *)
(* callback at most once in an operation                                   *)
Recognize(w, in) ==
    LET stopAt == IF ~w.stopped
                     /\ StopPointReached(w.tracker.kind, w.previousGestures,
                                         in.results, in.stopAt)
                  THEN in.stopAt ELSE NoStop
        t == CASE stopAt.loop = "entries" ->
                      onResultsStopInEntries(w.previousGestures, in.results,
                                             stopAt.index)
               [] stopAt.loop = "missing" ->
                      onResultsStopInMissing(w.previousGestures, in.results,
                                             stopAt.index)
               [] OTHER -> onResults(w.previousGestures, in.results)
        done == [w EXCEPT !.processed = @ + 1,
                          !.fired = @ \o t.fired]
    IN  IF stopAt = NoStop
        THEN [done EXCEPT !.previousGestures = t.previousGestures]
        ELSE [trackerStop(done) EXCEPT
                  !.previousGestures = t.previousGestures,
                  !.stopped = TRUE]

(* GestureTracker.trackGestures *)
trackGestures(w, in) ==
    IF ~w.tracker.tracking THEN w
    ELSE IF ~in.ready THEN Schedule(w)
    ELSE Schedule(Recognize(w, in))

(* the closure detectHands of HandTracker.start *)
detectHands(w, in) ==
    IF ~w.tracker.tracking THEN [w EXCEPT !.tracker.animationId = NoFrame]
    ELSE LET done == IF in.ready THEN Recognize(w, in) ELSE w
         IN  IF done.tracker.tracking THEN Schedule(done)
             ELSE [done EXCEPT !.tracker.animationId = NoFrame]

DetectionLoop(w, in) ==
    IF w.tracker.kind = "GestureTracker" THEN trackGestures(w, in)
    ELSE detectHands(w, in)

(* GestureTracker.start and HandTracker.start *)
trackerStart(w, in) ==
    DetectionLoop([w EXCEPT !.tracker.tracking = TRUE], in)

RECURSIVE RunTrackerCallbacks(_, _, _)
RunTrackerCallbacks(w, handles, in) ==
    IF handles = <<>> THEN w
    ELSE IF Head(handles) \notin Range(w.frames)
    THEN RunTrackerCallbacks(w, Tail(handles), in)
    ELSE RunTrackerCallbacks(
             DetectionLoop(
                 [w EXCEPT !.frames = cancelAnimationFrame(@, Head(handles))],
                 in),
             Tail(handles), in)

(* inVictory: the hands that were in Victory at the last stop() called     *)
(* between frames and have had no frame processed since; released: the     *)
(* ones of them whose first frame this operation processed.                *)
TrackerOp(name, in, w, inVictory) ==
    [op |-> name, results |-> in.results, fired |-> w.fired,
     processed |-> w.processed, stopped |-> w.stopped,
     inVictory |-> IF w.processed > 0 THEN {} ELSE inVictory,
     released |-> IF w.processed > 0 THEN inVictory ELSE {}]

NoInput == [ready |-> FALSE, results |-> <<>>, stopAt |-> NoStop]

othersTracker == <<now, pc, phases, segmentCount, ropes, ropeIdCounter,
                   handPosition, handReports, physics, worldBodies,
                   worldJoints, rigidBodies, worldFault, staleJointRemovals,
                   staleBodyReads, scoreData, events, lastCutTime, timer,
                   spawner, everCut>>

InitTracker ==
    /\ now = 0
    /\ pc = "idle"
    /\ phases = <<>>
    /\ segmentCount = 1
    /\ ropes = <<>>
    /\ ropeIdCounter = 0
    /\ handPosition = [h \in Hands |-> 0]
    /\ previousGestures = [h \in Hands |-> Unset]
    /\ handReports = [h \in Hands |-> NeverReported]
    /\ physics = PhysicsReady
    /\ worldBodies = {}
    /\ worldJoints = {}
    /\ rigidBodies = {}
    /\ worldFault = FALSE
    /\ staleJointRemovals = {}
    /\ staleBodyReads = {}
    /\ scoreData = [current |-> 0, combo |-> 0, maxCombo |-> 0,
                    totalTreasures |-> 0]
    /\ events = <<>>
    /\ lastCutTime = 0
    /\ timer = GameTimerNew
    /\ animationFrames = <<>>
    /\ tracker \in {[TrackerNew EXCEPT !.kind = k] : k \in Trackers}
    /\ spawner = [isActive |-> FALSE, timeSinceLastSpawn |-> 0]
    /\ everCut = {}
    /\ lastOp = TrackerOp("init", NoInput, TrackerWorld, {})

SetTrackerWorld(w) ==
    /\ tracker' = w.tracker
    /\ animationFrames' = w.frames
    /\ previousGestures' = w.previousGestures

TrackerStart(in) ==
    /\ Len(animationFrames) < MaxLoops
    /\ StopPointReached(tracker.kind, previousGestures, in.results, in.stopAt)
    /\ \E w \in {trackerStart(TrackerWorld, in)} :
           /\ SetTrackerWorld(w)
           /\ lastOp' = TrackerOp("start", in, w, lastOp.inVictory)
    /\ UNCHANGED othersTracker

TrackerStop ==
    /\ \E w \in {trackerStop(TrackerWorld)} :
           /\ SetTrackerWorld(w)
           /\ lastOp' = TrackerOp("stop", NoInput, w,
                                  {h \in Hands :
                                       previousGestures[h] = "Victory"})
    /\ UNCHANGED othersTracker

TrackerFrame(in) ==
    /\ animationFrames # <<>>
    /\ StopPointReached(tracker.kind, previousGestures, in.results, in.stopAt)
    /\ \E w \in {RunTrackerCallbacks(TrackerWorld, animationFrames, in)} :
           /\ SetTrackerWorld(w)
           /\ lastOp' = TrackerOp("frame", in, w, lastOp.inVictory)
    /\ UNCHANGED othersTracker

NextTracker ==
    \/ \E in \in TrackerInputs(tracker.kind) : TrackerStart(in)
    \/ TrackerStop
    \/ \E in \in TrackerInputs(tracker.kind) : TrackerFrame(in)

SpecTracker == InitTracker /\ [][NextTracker]_vars

----------------------------------------------------------------------------
(* Properties *)

Resolutions == {"click", "gesture"}

CutRopes(rs) == {rs[i].id : i \in {k \in 1..Len(rs) : rs[k].isCut}}

RopeOf(rs, id) == rs[RopeIndex(rs, id)]

LiveJoints(rope, world) == Range(rope.joints) \cap world

(* C1: once a rope is cut, no later click or gesture resolution reports a  *)
(* hit on it, removes another of its joints or scores it again, and its    *)
(* isCut flag never goes back to false.                                    *)
C1_CutIsFinal ==
    [][\A i \in 1..Len(ropes) :
          ropes[i].isCut =>
             LET id == ropes[i].id
             IN  /\ id \in RopeIds(ropes') => RopeOf(ropes', id).isCut
                 /\ lastOp'.op \in Resolutions =>
                       /\ id \in RopeIds(ropes')
                       /\ lastOp'.cutId # id
                       /\ LiveJoints(ropes[i], worldJoints')
                            = LiveJoints(ropes[i], worldJoints)
                       /\ scoreData' # scoreData =>
                             /\ lastOp'.cutId \in RopeIds(ropes)
                             /\ ~RopeOf(ropes, lastOp'.cutId).isCut
                             /\ lastOp'.cutId \notin everCut]_vars

(* a resolution whose query intersected an already cut rope cut nothing *)
C1_Witness ==
    /\ lastOp.op \in Resolutions
    /\ lastOp.hitCut
    /\ lastOp.cutId = NoRope
    /\ CutRopes(ropes) # {}

(* C2: no joint is passed to the world's joint removal a second time *)
C2_JointRemovedAtMostOnce == staleJointRemovals = {}

(* C3: no per-frame operation reads a freed body, and teardown leaves no   *)
(* freed body in the active rope set or in the Physics body registry.      *)
C3_NoFreedBodyTouched ==
    /\ staleBodyReads = {}
    /\ rigidBodies \subseteq worldBodies
    /\ \A i \in 1..Len(ropes) : RopeBodies(ropes[i]) \subseteq worldBodies

(* C4: a rope enters the active set uncut and with one joint more than it  *)
(* has segments, and every rope of the active set, cut or not, keeps one   *)
(* joint more than it has segments.                                        *)
C4_JointsOneMoreThanSegments ==
    [][\A i \in 1..Len(ropes') :
          /\ Len(ropes'[i].segments) >= 1
          /\ Len(ropes'[i].joints) = Len(ropes'[i].segments) + 1
          /\ ropes'[i].id \notin RopeIds(ropes) => ~ropes'[i].isCut]_vars

C4_Witness ==
    \E i \in 1..Len(ropes) :
        /\ ropes[i].isCut
        /\ Len(ropes[i].segments) = MaxSegments
        /\ Len(ropes[i].joints) = MaxSegments + 1


(* The parts of a rope that the live joints link to part p: part 0 is the  *)
(* anchor, parts 1..N the segments, part N+1 the treasure.                 *)
Edges(rope, world) == {<<j.a[2], j.b[2]>> : j \in LiveJoints(rope, world)}

RECURSIVE Reach(_, _)
Reach(parts, edges) ==
    LET more == parts \cup {e[2] : e \in {d \in edges : d[1] \in parts}}
                      \cup {e[1] : e \in {d \in edges : d[2] \in parts}}
    IN  IF more = parts THEN parts ELSE Reach(more, edges)

Linked(rope, world, p, q) == q \in Reach({p}, Edges(rope, world))

(* rope is cut at its segment i (counted from 0): only joints[i] is gone,  *)
(* segments i.. and the treasure hang together and apart from the anchor,  *)
(* and the segments above i still hang from the anchor.                    *)
CutAtSegment(rope, world, i) ==
    LET n == Len(rope.segments)
    IN  /\ i \in 0..(n - 1)
        /\ Range(rope.joints) \ world = {rope.joints[i + 1]}
        /\ \A p, q \in (i + 1)..(n + 1) : Linked(rope, world, p, q)
        /\ \A p \in (i + 1)..(n + 1) : ~Linked(rope, world, 0, p)
        /\ \A p \in 1..i : Linked(rope, world, 0, p)

(* C5: every successful cut, by click or by gesture, marks exactly one     *)
(* rope, removes exactly one joint of that rope and records exactly one    *)
(* score event; totalTreasures is always the number of ropes ever cut.     *)
C5_OneCutOneJointOneScore ==
    [][/\ scoreData'.totalTreasures = Cardinality(everCut')
       /\ Len(events') = scoreData'.totalTreasures
       /\ IF lastOp'.op \in Resolutions /\ lastOp'.cutId # NoRope
          THEN /\ lastOp'.cutId \in RopeIds(ropes)
               /\ CutRopes(ropes') \ CutRopes(ropes) = {lastOp'.cutId}
               /\ everCut' \ everCut = {lastOp'.cutId}
               /\ Cardinality(worldJoints \ worldJoints') = 1
               /\ worldJoints \ worldJoints'
                    \subseteq Range(RopeOf(ropes, lastOp'.cutId).joints)
               /\ Len(events') = Len(events) + 1
               /\ scoreData'.totalTreasures = scoreData.totalTreasures + 1
          ELSE /\ everCut' = everCut
               /\ events' = events
               /\ scoreData'.totalTreasures = scoreData.totalTreasures]_vars

(* the second cut of a session, made by a gesture *)
C5_Witness ==
    /\ lastOp.op = "gesture"
    /\ lastOp.cutId # NoRope
    /\ scoreData.totalTreasures = 2
    /\ Cardinality(everCut) = 2

(* C6: one resolution call cuts at most one rope, and of the uncut ropes   *)
(* the query intersects it cuts the one that was spawned first.            *)
C6_FirstMatchWins ==
    [][lastOp'.op \in Resolutions =>
          /\ Cardinality(CutRopes(ropes') \ CutRopes(ropes)) <= 1
          /\ CutRopes(ropes') \ CutRopes(ropes) \subseteq {lastOp'.firstHit}
          /\ ~lastOp'.threw => lastOp'.cutId = lastOp'.firstHit]_vars

(* the query intersected two uncut ropes; the later one is still uncut *)
C6_Witness ==
    /\ lastOp.op \in Resolutions
    /\ lastOp.nHit >= 2
    /\ lastOp.cutId # NoRope
    /\ \E i, j \in 1..Len(ropes) :
          /\ i < j
          /\ ropes[i].id = lastOp.cutId
          /\ ~ropes[j].isCut

(* C7: cutting at hit segment i removes exactly joints[i]; segments i..    *)
(* and the treasure stay linked to each other, nothing links them to the   *)
(* anchor, and the segments above i stay attached to the anchor.           *)
C7_CutAboveHitSegment ==
    /\ (lastOp.op \in Resolutions /\ lastOp.cutId # NoRope) =>
          /\ lastOp.cutId \in RopeIds(ropes)
          /\ CutAtSegment(RopeOf(ropes, lastOp.cutId), worldJoints, lastOp.seg)
    /\ \A k \in 1..Len(ropes) :
          ropes[k].isCut =>
             \E i \in 0..(Len(ropes[k].segments) - 1) :
                 CutAtSegment(ropes[k], worldJoints, i)

(* a rope of three segments was cut at its middle segment *)
C7_Witness ==
    /\ lastOp.op \in Resolutions
    /\ lastOp.cutId # NoRope
    /\ lastOp.seg = 1
    /\ Len(RopeOf(ropes, lastOp.cutId).segments) = 3

(* C8: a click or gesture resolution that hits no uncut rope raises no     *)
(* error and leaves the active set, every joint and isCut flag and the     *)
(* score state as they were.                                               *)
C8_MissChangesNothing ==
    [][(lastOp'.op \in Resolutions /\ lastOp'.nHit = 0) =>
          /\ ~lastOp'.threw
          /\ lastOp'.cutId = NoRope
          /\ UNCHANGED <<ropes, ropeIdCounter, worldBodies, worldJoints,
                         rigidBodies, scoreData, events, lastCutTime,
                         everCut>>]_vars

(* a miss while an uncut rope hangs and a combo is running *)
C8_Witness ==
    /\ lastOp.op \in Resolutions
    /\ lastOp.nHit = 0
    /\ scoreData.combo > 0
    /\ \E i \in 1..Len(ropes) : ~ropes[i].isCut

FrameOrder == <<"spawn", "move", "decay", "step", "sync">>

IsPrefix(p, q) == Len(p) <= Len(q) /\ p = SubSeq(q, 1, Len(p))

(* C9 (amended): the phases of a frame run in the order spawn, move and    *)
(* teardown, combo decay check, physics step; resolutions are applied      *)
(* only between frames.                                                    *)
C9_FrameOrder ==
    /\ IsPrefix(phases, FrameOrder)
    /\ pc = "updated" => phases = SubSeq(FrameOrder, 1, 3)
    /\ pc = "stepped" => phases = SubSeq(FrameOrder, 1, 4)
    /\ lastOp.op \in Resolutions => pc = "idle"

(* a complete frame has run with a rope in the active set *)
C9_Witness ==
    /\ pc = "idle"
    /\ phases = FrameOrder
    /\ ropes # <<>>

ClaimedRank(phase) ==
    CASE phase = "spawn" -> 1
      [] phase = "move"  -> 2
      [] phase = "step"  -> 4
      [] phase = "decay" -> 5
      [] phase = "sync"  -> 5

(* C9 as claimed: the decay check of a frame runs after its physics step *)
C9_DecayAfterStep ==
    /\ \A i, j \in 1..Len(phases) :
          i < j => ClaimedRank(phases[i]) <= ClaimedRank(phases[j])
    /\ lastOp.op \in Resolutions => pc = "idle"

(* C10: update() removes out-of-bounds ropes only after its iteration over *)
(* the active set has finished, and never calls                            *)
(* setNextKinematicTranslation on a rope it removes in that frame.         *)
C10_TeardownDeferred ==
    lastOp.op = "update" =>
       /\ lastOp.removedInLoop = {}
       /\ lastOp.moved \cap lastOp.removedInLoop = {}


(* The horizontal coordinate update() computes for the anchor of rope in a *)
(* frame of the given delta time.                                          *)
AnchorTarget(rope, deltaTime) ==
    IF rope.direction = "left"
    THEN rope.x + rope.speed * deltaTime
    ELSE rope.x - rope.speed * deltaTime

OutOfBounds(x) == x > BoundX * PosScale \/ x < -(BoundX * PosScale)

(* C11: a rope leaves the active set only in update(); a cut never removes *)
(* it; update() removes a rope, cut or not, exactly when the horizontal    *)
(* coordinate it computes for the anchor is beyond the bound of 10.        *)
C11_LeavesOnlyAtBound ==
    [][LET gone == RopeIds(ropes) \ RopeIds(ropes')
       IN  /\ gone # {} => lastOp'.op = "update"
           /\ lastOp'.op \in Resolutions =>
                 /\ IdsInOrder(ropes') = IdsInOrder(ropes)
                 /\ worldBodies' = worldBodies
           /\ (lastOp'.op = "update" /\ ~lastOp'.threw) =>
                 \A i \in 1..Len(ropes) :
                     ropes[i].id \in gone
                       <=> OutOfBounds(AnchorTarget(ropes[i], lastOp.deltaTime))]_vars

(* update() has just removed a cut rope while another rope stays *)
C11_Witness ==
    /\ lastOp.op = "update"
    /\ lastOp.removedInLoop \cap everCut # {}
    /\ ropes # <<>>


(* C12: when the game has been stopped, no rope is left in the active set  *)
(* and none of its joints or bodies is left in the physics world.          *)
C12_StopTearsDownAll ==
    pc = "stopped" =>
       /\ ropes = <<>>
       /\ worldBodies = {}
       /\ worldJoints = {}


(* C13: once the time-up signal has ended the session the spawner is       *)
(* stopped, and no later update() emits a spawn event: no rope id is       *)
(* consumed and no rope enters the active set.                             *)
C13_NoSpawnAfterEnd ==
    [][timer.hasTimeUpFired =>
          /\ ~spawner.isActive
          /\ ropeIdCounter' = ropeIdCounter
          /\ RopeIds(ropes') \subseteq RopeIds(ropes)
          /\ spawner' = spawner]_vars

(* an update() after time-up, with more than the spawn interval elapsed    *)
(* since the last spawn                                                    *)
C13_Witness ==
    /\ timer.hasTimeUpFired
    /\ lastOp.op = "update"
    /\ ~lastOp.threw
    /\ now >= TimerDuration + LateDelta
    /\ (now - TimerDuration + LateDelta) * 10 * TotalDuration
          >= getSpawnInterval(getElapsedTime(timer, now))


(* C14: after the time-up signal has ended the session, no click and no    *)
(* gesture cut action changes a rope's isCut flag or joints or the score.  *)
C14_CutsFrozenAfterTimeUp ==
    [][(timer.hasTimeUpFired /\ lastOp'.op \in Resolutions) =>
          UNCHANGED <<ropes, worldJoints, scoreData, events,
                      lastCutTime>>]_vars


(* C15: the spawn controller is running exactly from a start() to the next *)
(* stop(); while it is stopped update() emits nothing and leaves the       *)
(* time-since-last-spawn accumulator as it is.                             *)
C15_RunningBetweenStartAndStop ==
    [][/\ lastOp'.op = "start" => spawner'.isActive
       /\ lastOp'.op = "stop" => ~spawner'.isActive
       /\ lastOp'.op = "spawnUpdate" => spawner'.isActive = spawner.isActive
       /\ (lastOp'.op = "spawnUpdate" /\ ~spawner.isActive) =>
             /\ lastOp'.emitted = 0
             /\ spawner'.timeSinceLastSpawn = spawner.timeSinceLastSpawn]_vars

(* a stopped spawner with time on its accumulator was given a delta longer *)
(* than any spawn interval                                                 *)
C15_Witness ==
    /\ lastOp.op = "spawnUpdate"
    /\ ~spawner.isActive
    /\ spawner.timeSinceLastSpawn > 0
    /\ lastOp.deltaTime * 10 >= InitialInterval10
    /\ lastOp.emitted = 0

(* C16: while running, update(delta, elapsed) emits exactly one event, with *)
(* the speed for that elapsed time, and zeroes the accumulator if the      *)
(* accumulator plus delta has reached the interval for that elapsed time;  *)
(* otherwise it emits nothing and the accumulator has grown by delta.      *)
C16_SpawnWhenIntervalReached ==
    [][(lastOp'.op = "spawnUpdate" /\ spawner.isActive) =>
          LET acc == spawner.timeSinceLastSpawn + lastOp'.deltaTime
              t == lastOp'.elapsedTime
              due == acc * 10 * TotalDuration >= getSpawnInterval(t)
          IN  /\ lastOp'.emitted \in {0, 1}
              /\ lastOp'.emitted = 1 <=> due
              /\ due => /\ spawner'.timeSinceLastSpawn = 0
                        /\ lastOp'.speed = getSpeed(t)
              /\ ~due => spawner'.timeSinceLastSpawn = acc]_vars

(* one event for a delta that spans more than two intervals *)
C16_Witness ==
    /\ lastOp.op = "spawnUpdate"
    /\ lastOp.emitted = 1
    /\ spawner.isActive
    /\ spawner.timeSinceLastSpawn = 0
    /\ lastOp.deltaTime * 10 * TotalDuration
          > 2 * getSpawnInterval(lastOp.elapsedTime)

(* an update that landed exactly on the interval *)
C16_WitnessBoundary ==
    /\ lastOp.op = "spawnUpdate"
    /\ lastOp.emitted = 1
    /\ lastOp.deltaTime = 1
    /\ lastOp.elapsedTime = 0


(* comparison of two numbers that are not NaN *)
RatEq(a, b) == ~a.nan /\ ~b.nan /\ a.num * b.den = b.num * a.den

RatLeq(a, b) == ~a.nan /\ ~b.nan /\ a.num * b.den <= b.num * a.den

(* C17: for totalDuration D > 0 and d = min(1, t / D) the interval is      *)
(* initialInterval - (initialInterval - minInterval) * d and the speed is  *)
(* minSpeed + (maxSpeed - minSpeed) * d; the shipped configuration gives   *)
(* 3.0 s and 1.0 at t = 0, 2.25 s and 1.5 at t = 15, 1.5 s and 2.0 at 30.  *)
C17_LinearRamp ==
    LET t == lastOp.elapsedTime
        dur == lastOp.totalDuration
        d == lastOp.difficulty
        iv == lastOp.interval
        sp == lastOp.speed
    IN  dur > 0 =>
           /\ ~d.nan /\ d.den > 0
           /\ IF t >= dur THEN d.num = d.den ELSE d.num * dur = t * d.den
           /\ RatEq(iv, Rat(InitialInterval10 * d.den
                            - (InitialInterval10 - MinInterval10) * d.num,
                            d.den))
           /\ RatEq(sp, Rat(MinSpeed10 * d.den
                            + (MaxSpeed10 - MinSpeed10) * d.num, d.den))
           /\ dur = TotalDuration =>
                 /\ RatEq(iv, Rat(getSpawnInterval(t), TotalDuration))
                 /\ RatEq(sp, Rat(getSpeed(t), TotalDuration))
                 /\ t = 0 => RatEq(iv, Rat(30, 1)) /\ RatEq(sp, Rat(10, 1))
                 /\ t = 15 => RatEq(iv, Rat(225, 10)) /\ RatEq(sp, Rat(15, 1))
                 /\ t = 30 => RatEq(iv, Rat(15, 1)) /\ RatEq(sp, Rat(20, 1))

(* the shipped configuration half way up the ramp *)
C17_Witness ==
    /\ lastOp.op = "difficulty"
    /\ lastOp.totalDuration = TotalDuration
    /\ lastOp.elapsedTime = 15
    /\ RatEq(lastOp.interval, Rat(225, 10))

(* C18: for totalDuration > 0 the interval never grows and the speed never *)
(* falls as elapsed time grows, and beyond totalDuration they are          *)
(* minInterval and maxSpeed.                                               *)
C18_MonotoneThenConstant ==
    [][(/\ lastOp.op = "difficulty" /\ lastOp'.op = "difficulty"
        /\ lastOp'.totalDuration = lastOp.totalDuration
        /\ lastOp.totalDuration > 0
        /\ lastOp.elapsedTime <= lastOp'.elapsedTime) =>
          /\ RatLeq(lastOp'.interval, lastOp.interval)
          /\ RatLeq(lastOp.speed, lastOp'.speed)
          /\ lastOp.elapsedTime >= lastOp.totalDuration =>
                /\ RatEq(lastOp.interval, Rat(MinInterval10, 1))
                /\ RatEq(lastOp'.interval, Rat(MinInterval10, 1))
                /\ RatEq(lastOp.speed, Rat(MaxSpeed10, 1))
                /\ RatEq(lastOp'.speed, Rat(MaxSpeed10, 1))]_vars

(* an elapsed time beyond the ramp of the shipped configuration *)
C18_Witness ==
    /\ lastOp.op = "difficulty"
    /\ lastOp.totalDuration = TotalDuration
    /\ lastOp.elapsedTime > TotalDuration
    /\ RatEq(lastOp.interval, Rat(MinInterval10, 1))
    /\ RatEq(lastOp.speed, Rat(MaxSpeed10, 1))

(* C19: with totalDuration <= 0 the difficulty is 1 for every elapsed time *)
(* from 0 on, so the interval is minInterval and the speed maxSpeed.       *)
C19_NonPositiveRampIsFullDifficulty ==
    (lastOp.op = "difficulty" /\ lastOp.totalDuration <= 0) =>
       /\ RatEq(lastOp.difficulty, Rat(1, 1))
       /\ RatEq(lastOp.interval, Rat(MinInterval10, 1))
       /\ RatEq(lastOp.speed, Rat(MaxSpeed10, 1))


(* C20: the first cut of a session yields combo 1; a cut no more than the  *)
(* combo timeout after the previous cut yields the previous cut's combo    *)
(* plus 1, a later one yields 1, whatever update() calls came in between.  *)
C20_ComboLaw ==
    /\ Len(events) >= 1 => events[1].combo = 1
    /\ \A k \in 2..Len(events) :
          IF events[k].timestamp - events[k - 1].timestamp <= ComboTimeout
          THEN events[k].combo = events[k - 1].combo + 1
          ELSE events[k].combo = 1
    /\ lastOp.op = "cut" => scoreData.combo = events[Len(events)].combo

(* a second cut exactly the timeout after the first and a third cut later *)
(* than the timeout after the second                                       *)
C20_Witness ==
    /\ Len(events) = 3
    /\ lastOp.op = "cut"
    /\ events[2].timestamp - events[1].timestamp = ComboTimeout
    /\ events[2].combo = 2
    /\ events[3].timestamp - events[2].timestamp > ComboTimeout
    /\ events[3].combo = 1
    /\ scoreData.maxCombo = 2



(* C21: after a cut at t0 with no further cut, update() at a time later    *)
(* than t0 + comboTimeout sets the combo to 0 and update() at a time not   *)
(* later than t0 + comboTimeout leaves the combo as it is.                 *)
C21_ComboDecay ==
    [][(lastOp'.op = "scoreUpdate" /\ Len(events) >= 1) =>
          LET t0 == events[Len(events)].timestamp
          IN  /\ DateNow > t0 + ComboTimeout => scoreData'.combo = 0
              /\ DateNow <= t0 + ComboTimeout =>
                    scoreData'.combo = scoreData.combo]_vars

(* update() one second after the timeout of a cut that had reached combo 2 *)
C21_Witness ==
    /\ lastOp.op = "scoreUpdate"
    /\ Len(events) = 2
    /\ events[2].combo = 2
    /\ DateNow = events[2].timestamp + ComboTimeout + 1
    /\ scoreData.combo = 0
    /\ scoreData.maxCombo = 2

(* C22: every cut awards floor(baseScore * (1 + (combo - 1) * 0.1)), which *)
(* is the whole part of baseScore * (9 + combo) / 10; base score 100 at    *)
(* combo 3 awards 120.                                                     *)
C22_PointsIsFloorOfProduct ==
    lastOp.op = "points" =>
       /\ lastOp.baseScore \in {100, 50, 30}
       /\ lastOp.points = (lastOp.baseScore * (9 + lastOp.combo)) \div 10
       /\ (lastOp.baseScore = 100 /\ lastOp.combo = 3) => lastOp.points = 120

(* C23: the score total never decreases; a cut raises it by at least the   *)
(* base score of the treasure, and update() and the combo reset leave it.  *)
C23_TotalNeverDecreases ==
    [][/\ scoreData'.current >= scoreData.current
       /\ lastOp'.op = "cut" =>
             /\ Len(events') = Len(events) + 1
             /\ scoreData'.current - scoreData.current
                  = events'[Len(events')].points
             /\ events'[Len(events')].points
                  >= getTreasureConfig(events'[Len(events')].treasureType).score
       /\ lastOp'.op \in {"scoreUpdate", "tick"} =>
             scoreData'.current = scoreData.current]_vars

(* the combo has decayed to 0 and the total of two cuts is still there *)
C23_Witness ==
    /\ lastOp.op = "scoreUpdate"
    /\ Len(events) = 2
    /\ scoreData.combo = 0
    /\ scoreData.current = events[1].points + events[2].points
    /\ scoreData.current > 0

----------------------------------------------------------------------------
(* The gesture state machine *)

CutActions(fired, h) ==
    {i \in 1..Len(fired) : /\ fired[i].callback = "onVCloseAction"
                           /\ fired[i].handedness = h}

(* the gesture a hand's next classification is compared with *)
StoredGesture(previous, h) == IF previous[h] = Unset THEN "None" ELSE previous[h]

(* C24: on every tracking frame and for each hand, a cut action fires if   *)
(* and only if the hand's gesture before the frame was Victory and its     *)
(* gesture after the frame is not Victory (None included); no other        *)
(* transition and no frame that leaves the gesture unchanged fires one.    *)
C24_CutIffVictoryLeft ==
    [][lastOp'.op = "onResults" =>
          \A h \in Hands :
              (CutActions(lastOp'.fired, h) # {})
              <=> /\ StoredGesture(previousGestures, h) = "Victory"
                  /\ StoredGesture(previousGestures', h) # "Victory"]_vars

Absent(results, h) ==
    \A i \in 1..Len(results) :
        results[i].handedness = h => results[i].gesture = NoCategory

Classifications(results, h) ==
    {i \in 1..Len(results) : /\ results[i].handedness = h
                             /\ results[i].gesture # NoCategory}

FiredFor(fired, h) == {i \in 1..Len(fired) : fired[i].handedness = h}

(* C25: a frame without a hand whose stored gesture is Victory fires       *)
(* exactly one cut action for that hand and stores None for it; a frame    *)
(* without a hand whose stored gesture is None (or that was never seen)    *)
(* fires nothing for it; and a hand that comes back while None is stored   *)
(* is compared with None, so that coming back with gestures other than     *)
(* Victory fires no cut action.                                            *)
C25_AbsenceFiresOnce ==
    [][lastOp'.op = "onResults" =>
          \A h \in Hands :
              LET results == lastOp'.results
                  fired == lastOp'.fired
                  mine == FiredFor(fired, h)
              IN  /\ (Absent(results, h) /\ previousGestures[h] = "Victory")
                        => /\ Cardinality(CutActions(fired, h)) = 1
                           /\ \A i \in mine : fired[i].gesture = "None"
                           /\ previousGestures'[h] = "None"
                  /\ (Absent(results, h)
                        /\ previousGestures[h] \in {"None", Unset})
                        => /\ mine = {}
                           /\ previousGestures'[h] = previousGestures[h]
                  /\ (~Absent(results, h) /\ previousGestures[h] = "None")
                        => /\ mine # {} =>
                                fired[CHOOSE i \in mine :
                                         \A j \in mine : i <= j]
                                    .previousGesture = "None"
                           /\ (\A i \in Classifications(results, h) :
                                    results[i].gesture # "Victory")
                                => CutActions(fired, h) = {}]_vars

(* the left hand was lost while Victory: one cut action, None stored *)
C25_Witness ==
    /\ lastOp.op = "onResults"
    /\ Absent(lastOp.results, "Left")
    /\ \E i \in CutActions(lastOp.fired, "Left") :
           /\ lastOp.fired[i].previousGesture = "Victory"
           /\ lastOp.fired[i].gesture = "None"
    /\ previousGestures["Left"] = "None"

(* what a frame did for one hand: its callbacks in order, and its slot *)
OutcomeFor(t, h) ==
    LET IsMine(c) == c.handedness = h
    IN  [fired |-> SelectSeq(t.fired, IsMine),
         previousGesture |-> t.previousGestures[h]]

(* the same frame as one hand alone lives it: nothing stored for the       *)
(* other hand, and the other hand's entries taken out                      *)
AloneFor(previous, results, h) ==
    LET IsMine(e) == e.handedness = h
    IN  onResults([k \in Hands |-> IF k = h THEN previous[h] ELSE Unset],
                  SelectSeq(results, IsMine))

(* C28: the callbacks made for a hand (transition events and cut actions)  *)
(* and the gesture stored for it after a frame depend only on what was     *)
(* stored for that hand and on that hand's own entries of the frame: they  *)
(* are the same as if the other hand had never been seen and were not in   *)
(* the frame.                                                              *)
C28_HandsIndependent ==
    [][lastOp'.op = "onResults" =>
          \A h \in Hands :
              OutcomeFor([fired |-> lastOp'.fired,
                          previousGestures |-> previousGestures'], h)
              = OutcomeFor(AloneFor(previousGestures, lastOp'.results, h),
                           h)]_vars

(* one frame in which the left hand closes its Victory and the right hand  *)
(* opens one                                                               *)
C28_Witness ==
    /\ lastOp.op = "onResults"
    /\ CutActions(lastOp.fired, "Left") # {}
    /\ \E i \in FiredFor(lastOp.fired, "Right") :
           lastOp.fired[i].callback = "onVictoryDetected"
    /\ previousGestures["Right"] = "Victory"

----------------------------------------------------------------------------
(* Gesture cuts and the cached hand positions *)

RopesAt(rs, position) == {i \in 1..Len(rs) : rs[i].x = position}

(* C26: a cut action of hand h queries nothing but the position the latest *)
(* hand-tracking frame reported for h; once a hand-tracking frame has      *)
(* reported h missing (or before h was ever reported) the cached position  *)
(* is null, and the action cuts nothing and scores nothing.                *)
C26_NoStalePosition ==
    [][lastOp'.op = "gestures" =>
          /\ \A k \in 1..Len(lastOp'.cuts) :
                LET c == lastOp'.cuts[k]
                    r == handReports[c.handedness]
                IN  /\ c.position # 0 =>
                          ~r.missing /\ c.position = r.position
                    /\ r.missing =>
                          c.position = 0 /\ c.ropeId = NoRope /\ c.points = 0
          /\ (\A k \in 1..Len(lastOp'.cuts) :
                  handReports[lastOp'.cuts[k].handedness].missing)
                => /\ ropes' = ropes
                   /\ worldJoints' = worldJoints
                   /\ scoreData' = scoreData
                   /\ events' = events]_vars

(* a cut action of a hand that was last seen at the rope and has since     *)
(* been reported missing: the rope is still whole                          *)
C26_Witness ==
    /\ lastOp.op = "gestures"
    /\ \E k \in 1..Len(lastOp.cuts) :
           LET c == lastOp.cuts[k]
           IN  /\ c.position = 0
               /\ handReports[c.handedness] =
                      [position |-> RopePlace, missing |-> TRUE]
    /\ \A i \in 1..Len(ropes) : ~ropes[i].isCut

(* C27: when a hand whose stored gesture is Victory is missing from a      *)
(* gesture-tracking frame and an uncut assembly hangs at the position the  *)
(* hand was last reported at, the cut action of that frame is resolved at  *)
(* that position and the assembly is cut, whether or not a hand-tracking   *)
(* frame has already reported the hand missing.                            *)
C27_PendingCutNotLost ==
    [][lastOp'.op = "gestures" =>
          \A h \in Hands :
              LET place == handReports[h].position
              IN  (/\ h \notin lastOp'.detectedHands
                   /\ previousGestures[h] = "Victory"
                   /\ place # 0
                   /\ \E i \in RopesAt(ropes, place) : ~ropes[i].isCut)
                  => /\ \E k \in 1..Len(lastOp'.cuts) :
                            /\ lastOp'.cuts[k].handedness = h
                            /\ lastOp'.cuts[k].position = place
                     /\ \E i \in RopesAt(ropes', place) :
                            ropes'[i].isCut]_vars

----------------------------------------------------------------------------
(* The hit test of a gesture cut *)

HitRadius == Unit \div 2          \* 0.5 world units

(* a segment within the given radius of a point *)
withinSphere(segment, point, radius) ==
    (segment.x - point.x) * (segment.x - point.x)
    + (segment.z - point.z) * (segment.z - point.z) <= radius * radius

(* C29: a gesture cut is resolved by a sphere of radius 0.5 around the     *)
(* cached position of the hand: it cuts the uncut rope if and only if the  *)
(* segment lies within that radius of the position.                        *)
C29_SphereAtPoint ==
    lastOp.op = "hitTest" =>
        (lastOp.cut <=> withinSphere(lastOp.segment, lastOp.position,
                                     HitRadius))

----------------------------------------------------------------------------
(* The physics adapter *)

WorldOperations ==
    {"step", "createRigidBody", "createCollider", "registerBody",
     "unregisterBody", "syncMeshes", "getWorld", "getRAPIER",
     "createDebugBall"}

(* C30: every operation of the physics adapter that is called while there  *)
(* is no world (before init(), or after dispose()) throws; step(),         *)
(* createRigidBody, createCollider, getWorld and getRAPIER among them.     *)
C30_NoWorldThrows ==
    (lastOp.op \in WorldOperations /\ ~lastOp.initialized)
        => lastOp.outcome = "threw"

UnitSpeedLeft(rope) ==
    /\ rope.direction = "left"
    /\ rope.speed = DefaultSpeed * PosScale
    /\ ~rope.isCut

(* the frame that has just run completed update(), and the physics step *)
Updated == lastOp'.op = "frame" /\ "decay" \in Range(phases')

Stepped == lastOp'.op = "frame" /\ "step" \in Range(phases')

(* C32: a left-moving assembly of speed 1.0 that is not cut starts with    *)
(* its anchor at x = -8 and every frame of update(deltaTime) and physics   *)
(* step adds deltaTime to x, so that x = -8 + t after t seconds of frames  *)
(* (x = +2 at t = 10); update() keeps it in the active set while the new   *)
(* |x| is at most 10 and removes it in the first frame in which it is      *)
(* more, and an assembly that has left the active set never returns.       *)
C32_UnitSpeedTrajectory ==
    [][/\ \A j \in 1..Len(ropes') :
              (ropes'[j].id \notin RopeIds(ropes) /\ ropes'[j].direction = "left")
              => /\ ropes'[j].id >= ropeIdCounter
                 /\ ropes'[j].x = -StartX * PosScale
                 /\ ropes'[j].speed = DefaultSpeed * PosScale
       /\ Updated =>
              \A i \in 1..Len(ropes) :
                  LET rope == ropes[i]
                      newX == rope.x + lastOp'.deltaTime * PosScale
                  IN  UnitSpeedLeft(rope) =>
                         IF Abs(newX) <= BoundX * PosScale
                         THEN /\ rope.id \in RopeIds(ropes')
                              /\ RopeOf(ropes', rope.id).x =
                                     IF Stepped THEN newX ELSE rope.x
                         ELSE rope.id \notin RopeIds(ropes')
       /\ ~Updated =>
              \A i \in 1..Len(ropes) :
                  UnitSpeedLeft(ropes[i]) =>
                      /\ ropes[i].id \in RopeIds(ropes')
                      /\ RopeOf(ropes', ropes[i].id).x = ropes[i].x]_vars

(* 10 s of frames after its spawn the uncut left-moving assembly is at +2 *)
C32_Witness ==
    /\ lastOp.op = "frame"
    /\ ~lastOp.threw
    /\ \E i \in 1..Len(ropes) :
           /\ UnitSpeedLeft(ropes[i])
           /\ ropes[i].x = (10 - StartX) * PosScale

(* a frame has just removed the uncut left-moving assembly *)
C32_WitnessRemoved ==
    /\ lastOp.op = "frame"
    /\ 0 \in lastOp.removedInLoop
    /\ 0 \notin everCut

(* how far the anchor is from the edge the assembly was spawned at *)
Travelled(rope, x) ==
    IF rope.direction = "left" THEN x + StartX * PosScale
    ELSE StartX * PosScale - x

(* C37: while frames keep running with a physics step after each update,   *)
(* every assembly of the active set, cut or not, is eventually removed;    *)
(* it is spawned at x = -8 or x = +8 with a speed above 0, every such      *)
(* frame moves its anchor towards the opposite edge and none moves it      *)
(* back, and update() removes it exactly when the anchor would have        *)
(* travelled more than 18 units.                                           *)
C37_EveryAssemblyTornDown ==
    /\ \A id \in 0..(MaxMoveRopes - 1) :
           (id \in RopeIds(ropes)) ~> (id \notin RopeIds(ropes))
    /\ [][/\ \A j \in 1..Len(ropes') :
                 ropes'[j].id \notin RopeIds(ropes)
                 => /\ ropes'[j].speed > 0
                    /\ Travelled(ropes'[j], ropes'[j].x) = 0
          /\ \A i \in 1..Len(ropes) :
                 LET rope == ropes[i]
                     target == AnchorTarget(rope, lastOp'.deltaTime)
                 IN  IF Updated
                     THEN IF Travelled(rope, target)
                             > (StartX + BoundX) * PosScale
                          THEN rope.id \notin RopeIds(ropes')
                          ELSE /\ rope.id \in RopeIds(ropes')
                               /\ Stepped =>
                                      Travelled(rope, RopeOf(ropes', rope.id).x)
                                      > Travelled(rope, rope.x)
                               /\ ~Stepped =>
                                      RopeOf(ropes', rope.id).x = rope.x
                     ELSE /\ rope.id \in RopeIds(ropes')
                          /\ RopeOf(ropes', rope.id).x = rope.x]_vars

(* a cut assembly has been removed and the active set is empty again *)
C37_Witness ==
    /\ ropes = <<>>
    /\ everCut # {}
    /\ lastOp.op = "frame"


(* Totals recomputed from the recorded score events. *)
RECURSIVE SumPoints(_)
SumPoints(evs) ==
    IF evs = <<>> THEN 0 ELSE evs[1].points + SumPoints(Tail(evs))

LargestCombo(evs) ==
    IF evs = <<>> THEN 0
    ELSE CHOOSE c \in {evs[i].combo : i \in 1..Len(evs)} :
             \A i \in 1..Len(evs) : evs[i].combo <= c

(* C36: the score state always agrees with the recorded events: current   *)
(* is the sum of their points, totalTreasures their number, maxCombo the   *)
(* largest combo any of them carries, which is at least the running combo, *)
(* and right after addScore the combo is at least 1.                       *)
C36_ScoreStateConsistent ==
    /\ scoreData.current = SumPoints(events)
    /\ scoreData.totalTreasures = Len(events)
    /\ scoreData.maxCombo = LargestCombo(events)
    /\ scoreData.maxCombo >= scoreData.combo
    /\ lastOp.op = "cut" =>
           /\ scoreData.combo >= 1
           /\ scoreData.combo = events[Len(events)].combo

C36_Witness ==
    /\ lastOp.op = "scoreUpdate"
    /\ Len(events) = MaxCuts
    /\ scoreData.combo = 0
    /\ scoreData.maxCombo = 2
    /\ \E i \in 1..Len(events) : events[i].combo = 1 /\ i > 1


(* where a rope with this direction is after moving at its own speed *)
MovedBy(rope, x, deltaTime) ==
    IF rope.direction = "left" THEN x + rope.speed * deltaTime
    ELSE x - rope.speed * deltaTime

SpawnX(rope) ==
    IF rope.direction = "left" THEN -(StartX * PosScale) ELSE StartX * PosScale

(* C38: the rope created for a spawn event carries the direction and the   *)
(* speed of that event, which is the controller's speed for the elapsed    *)
(* time of that update, and is moved by that speed in the same update; a   *)
(* rope that is kept by a step keeps its direction and speed, and every    *)
(* update moves it by its own speed.                                       *)
C38_SpawnSpeedKept ==
    [][/\ \A i \in 1..Len(ropes') :
            ropes'[i].id \notin RopeIds(ropes) =>
                /\ lastOp'.op = "update"
                /\ lastOp'.spawnEvent = [direction |-> ropes'[i].direction,
                                         speed |-> ropes'[i].speed]
                /\ ropes'[i].speed = getSpeed(getElapsedTime(timer, now))
                /\ ropes'[i].x = SpawnX(ropes'[i])
                /\ ~lastOp'.threw =>
                       ropes'[i].nextX = MovedBy(ropes'[i], ropes'[i].x,
                                                 lastOp.deltaTime)
       /\ \A i \in 1..Len(ropes), j \in 1..Len(ropes') :
            ropes[i].id = ropes'[j].id =>
                /\ ropes'[j].direction = ropes[i].direction
                /\ ropes'[j].speed = ropes[i].speed
                /\ (lastOp'.op = "update" /\ ~lastOp'.threw) =>
                       ropes'[j].nextX = MovedBy(ropes[i], ropes[i].x,
                                                 lastOp.deltaTime)
                /\ lastOp'.op = "step" /\ ~lastOp'.threw =>
                       ropes'[j].x = ropes[i].nextX]_vars

(* an update spawned a faster rope while a slower, earlier one still moves *)
C38_Witness ==
    /\ lastOp.op = "update"
    /\ ~lastOp.threw
    /\ lastOp.spawnEvent # NoEvent
    /\ \E i, j \in 1..Len(ropes) :
           /\ i < j
           /\ ropes[j].speed = lastOp.spawnEvent.speed
           /\ ropes[j].direction = lastOp.spawnEvent.direction
           /\ ropes[i].speed < ropes[j].speed
           /\ ropes[i].speed > DefaultSpeed * PosScale
           /\ ropes[i].x # SpawnX(ropes[i])


----------------------------------------------------------------------------
(* The session timer *)

TicksAtZero(ticks) == {i \in 1..Len(ticks) : ticks[i] <= 0}

(* C33: onTimeUp is called at most once per start(); an operation calls it *)
(* exactly when it makes a tick with no time remaining, which happens at   *)
(* most once; right after the call the timer is inactive with no callback  *)
(* waiting, and an inactive timer makes no tick in a frame.                *)
C33_TimeUpOncePerStart ==
    [][/\ lastOp'.sinceStart <= 1
       /\ lastOp'.onTimeUp = Cardinality(TicksAtZero(lastOp'.onTick))
       /\ lastOp'.onTimeUp > 0 =>
              /\ lastOp'.op = "frame"
              /\ lastOp'.onTick[Len(lastOp'.onTick)] <= 0
              /\ ~timer'.isActive
              /\ timer'.animationFrameId = NoFrame
              /\ animationFrames' = <<>>
       /\ (~timer.isActive /\ lastOp'.op = "frame") =>
              lastOp'.onTick = <<>>]_vars

(* the frame 35 s after start() fired time-up, 5 s late *)
C33_Witness ==
    /\ lastOp.op = "frame"
    /\ lastOp.onTimeUp = 1
    /\ lastOp.sinceStart = 1
    /\ timer.hasTimeUpFired
    /\ ~timer.isActive
    /\ now - timer.startTime > TimerDuration

Resumed == lastOp.op = "resume" /\ timer.isActive /\ ~timer.isPaused

(* C34: the elapsed time does not advance while the timer is paused; a     *)
(* frame of a running timer calls onTick; and once resume() has taken      *)
(* effect onTimeUp is eventually called, unless the timer is stopped,      *)
(* paused or started again before.                                         *)
C34_PauseResumeContinues ==
    /\ [][/\ (timer.isPaused /\ timer'.isPaused) =>
                 getElapsedTime(timer', now') = getElapsedTime(timer, now)
          /\ (timer.isActive /\ ~timer.isPaused /\ lastOp'.op = "frame") =>
                 lastOp'.onTick # <<>>]_vars
    /\ Resumed ~> (lastOp.onTimeUp > 0
                   \/ lastOp.op \in {"start", "stop", "pause"})


----------------------------------------------------------------------------
(* The detection loops of the trackers *)

(* C35: whatever the order of start() and stop(), stop() from a results    *)
(* callback included, at most one callback of the tracker is waiting for   *)
(* an animation frame, none is waiting while the tracker is stopped, and   *)
(* a frame delivered to a stopped tracker processes nothing.               *)
C35_OneLoopNoneAfterStop ==
    [][/\ Len(animationFrames') <= 1
       /\ ~tracker'.tracking => animationFrames' = <<>>
       /\ (~tracker.tracking /\ lastOp'.op = "frame") =>
              lastOp'.processed = 0]_vars

CutsFor(fired, h) ==
    {i \in 1..Len(fired) : /\ fired[i].callback = "onVCloseAction"
                           /\ fired[i].handedness = h}

VictoryFor(results, h) ==
    \E i \in 1..Len(results) : /\ results[i].handedness = h
                               /\ results[i].gesture = "Victory"

====
